---- MODULE Spec2Model ----
(***************************************************************************)
(* ruma-events: the classifying unions of src/collections/all.rs and        *)
(* src/collections/only.rs.  A JSON document (serde_json::Value) is decoded *)
(* by one of five union decoders (all::Event, all::RoomEvent,               *)
(* all::StateEvent, only::Event, only::RoomEvent); each looks at the `type` *)
(* field, dispatches on the event kind, tries the per-kind decode, falls    *)
(* back to an Invalid* type for a registered kind and routes an             *)
(* unregistered tag to a Custom* type.                                      *)
(***************************************************************************)
EXTENDS Naturals, Sequences, FiniteSets, TLC

VARIABLES
    value,     \* the document handed to the decoders (serde_json::Value)
    out,       \* per union: the Result its deserialize returned, or NoResult
    concrete,  \* a per-kind value a producer holds, or NoEvent
    held,      \* per union: the union value a From conversion built, or NoHeld
    wire,      \* per union: the document written by serializing out[u], or NoDocument
    entry,     \* the document handed to StrippedState's decoder, or NoEntry
    stripped,  \* the Result of decoding entry as a StrippedState, or NoResult
    again,     \* per union: the Result of decoding wire[u] once more, or NoResult
    conv       \* an enum value and the strings it was converted to and from, or NoConv

vars == <<value, out, concrete, held, wire, entry, stripped, again, conv>>

(***************************************************************************)
(* Bounds                                                                    *)
(***************************************************************************)
\* how many unregistered type tags the documents draw from
NumCustomTags == 2

CustomTagPool == <<"x.custom", "org.example.thing", "m.room.unknown", "y.z">>

CustomTags == { CustomTagPool[i] : i \in 1..NumCustomTags }

(***************************************************************************)
(* JSON values                                                               *)
(***************************************************************************)
\* Value::get(key) found nothing
Absent == [k |-> "absent", s |-> ""]

\* a JSON string
Str(s) == [k |-> "str", s |-> s]

\* a JSON value that is not a string (a number, null, ...)
Num == [k |-> "num", s |-> ""]

\* a document that is not a JSON object
NonObject == [k |-> "num"]

\* no document exists yet
NoDocument == [k |-> "none"]

(***************************************************************************)
(* The event kinds (EventType) and their wire tags                           *)
(***************************************************************************)
BasicKinds == {"Presence", "Receipt", "Tag", "Typing"}

RoomOnlyKinds ==
    {"CallAnswer", "CallCandidates", "CallHangup", "CallInvite",
     "RoomMessage", "RoomRedaction"}

StateKinds ==
    {"RoomAliases", "RoomAvatar", "RoomCanonicalAlias", "RoomCreate",
     "RoomGuestAccess", "RoomHistoryVisibility", "RoomJoinRules",
     "RoomMember", "RoomName", "RoomPowerLevels", "RoomThirdPartyInvite",
     "RoomTopic"}

RegisteredKinds == BasicKinds \cup RoomOnlyKinds \cup StateKinds

\* the wire string of each registered kind (the doc comments of enum Event)
TagOf ==
    [kd \in RegisteredKinds |->
        CASE kd = "CallAnswer" -> "m.call.answer"
          [] kd = "CallCandidates" -> "m.call.candidates"
          [] kd = "CallHangup" -> "m.call.hangup"
          [] kd = "CallInvite" -> "m.call.invite"
          [] kd = "Presence" -> "m.presence"
          [] kd = "Receipt" -> "m.receipt"
          [] kd = "RoomAliases" -> "m.room.aliases"
          [] kd = "RoomAvatar" -> "m.room.avatar"
          [] kd = "RoomCanonicalAlias" -> "m.room.canonical_alias"
          [] kd = "RoomCreate" -> "m.room.create"
          [] kd = "RoomGuestAccess" -> "m.room.guest_access"
          [] kd = "RoomHistoryVisibility" -> "m.room.history_visibility"
          [] kd = "RoomJoinRules" -> "m.room.join_rules"
          [] kd = "RoomMember" -> "m.room.member"
          [] kd = "RoomMessage" -> "m.room.message"
          [] kd = "RoomName" -> "m.room.name"
          [] kd = "RoomPowerLevels" -> "m.room.power_levels"
          [] kd = "RoomRedaction" -> "m.room.redaction"
          [] kd = "RoomThirdPartyInvite" -> "m.room.third_party_invite"
          [] kd = "RoomTopic" -> "m.room.topic"
          [] kd = "Tag" -> "m.tag"
          [] kd = "Typing" -> "m.typing"]

\* the struct each variant of enum Event holds
StructOf ==
    [kd \in RegisteredKinds |->
        CASE kd = "CallAnswer" -> "AnswerEvent"
          [] kd = "CallCandidates" -> "CandidatesEvent"
          [] kd = "CallHangup" -> "HangupEvent"
          [] kd = "CallInvite" -> "InviteEvent"
          [] kd = "Presence" -> "PresenceEvent"
          [] kd = "Receipt" -> "ReceiptEvent"
          [] kd = "RoomAliases" -> "AliasesEvent"
          [] kd = "RoomAvatar" -> "AvatarEvent"
          [] kd = "RoomCanonicalAlias" -> "CanonicalAliasEvent"
          [] kd = "RoomCreate" -> "CreateEvent"
          [] kd = "RoomGuestAccess" -> "GuestAccessEvent"
          [] kd = "RoomHistoryVisibility" -> "HistoryVisibilityEvent"
          [] kd = "RoomJoinRules" -> "JoinRulesEvent"
          [] kd = "RoomMember" -> "MemberEvent"
          [] kd = "RoomMessage" -> "MessageEvent"
          [] kd = "RoomName" -> "NameEvent"
          [] kd = "RoomPowerLevels" -> "PowerLevelsEvent"
          [] kd = "RoomRedaction" -> "RedactionEvent"
          [] kd = "RoomThirdPartyInvite" -> "ThirdPartyInviteEvent"
          [] kd = "RoomTopic" -> "TopicEvent"
          [] kd = "Tag" -> "TagEvent"
          [] kd = "Typing" -> "TypingEvent"]

RegisteredTags == { TagOf[kd] : kd \in RegisteredKinds }

KindOfTag(s) == CHOOSE kd \in RegisteredKinds : TagOf[kd] = s

\* an EventType value: a registered kind, or Custom carrying the tag verbatim
EventTypeOf(s) ==
    IF s \in RegisteredTags
    THEN [name |-> KindOfTag(s), custom |-> ""]
    ELSE [name |-> "Custom", custom |-> s]

\* from_value::<EventType>: a string always resolves, anything else fails
FromValueEventType(v) ==
    IF v.k = "str"
    THEN [ok |-> TRUE, val |-> EventTypeOf(v.s), msg |-> ""]
    ELSE [ok |-> FALSE, val |-> EventTypeOf(""), msg |-> "invalid type: expected a string"]

\* the wire string an EventType serializes to
EventTypeWire(et) == IF et.name = "Custom" THEN et.custom ELSE TagOf[et.name]

(***************************************************************************)
(* Documents                                                                 *)
(***************************************************************************)
\* the document has no `content` field
NoContent == [k |-> "absent", for |-> "", req |-> Absent]

\* a `content` object written for kind kd, whose required field holds req
Content(kd, req) == [k |-> "obj", for |-> kd, req |-> req]

\* the wire strings of MembershipState
MembershipStates == {"ban", "invite", "join", "knock", "leave"}

\* the payloads a document of type tag t may carry: none, one written for its
\* own kind (complete or lacking the required field), and two foreign ones
ContentsFor(t) ==
    {NoContent, Content("RoomMember", Str("join")), Content("Typing", Str("ok"))}
    \cup (IF t.k = "str" /\ t.s \in RegisteredTags
          THEN {Content(KindOfTag(t.s), Str("ok")), Content(KindOfTag(t.s), Absent)}
          ELSE {})
    \cup (IF t = Str("m.room.member")
          THEN {Content("RoomMember", Str("ban")), Content("RoomMember", Str("other"))}
          ELSE {})

TypeValues == {Absent, Num} \cup { Str(s) : s \in RegisteredTags \cup CustomTags }

\* an identifier field: absent or a valid identifier
IdValues == {Absent, Str("id")}

\* the room_id field, which TypingEvent declares as an Option: absent, a
\* valid identifier, or a value that is no identifier
RoomIdValues == {Absent, Str("id"), Num}

\* the state_key field: absent, a string, or a value that is no string
StateKeyValues == {Absent, Str("a"), Num}

Documents ==
    {NonObject} \cup
    UNION { { [k |-> "obj", type |-> t, content |-> c, event_id |-> e,
               room_id |-> r, sender |-> s, state_key |-> sk] :
                c \in ContentsFor(t), e \in IdValues, r \in RoomIdValues,
                s \in IdValues, sk \in StateKeyValues } : t \in TypeValues }

\* Value::get(key): None for a value that is no object or lacks the key
Get(v, key) == IF v.k = "obj" THEN v[key] ELSE Absent

\* Value::get(key).is_some()
IsSome(v, key) == Get(v, key).k # "absent"

(***************************************************************************)
(* Typed events and results                                                  *)
(***************************************************************************)
NoEvent ==
    [struct |-> "", event_type |-> EventTypeOf(""), content |-> NoContent,
     event_id |-> Absent, room_id |-> Absent, sender |-> Absent,
     state_key |-> Absent, error |-> ""]

NoResult == [tag |-> "None", variant |-> "", event |-> NoEvent, msg |-> ""]

Ok(variant, event) == [tag |-> "Ok", variant |-> variant, event |-> event, msg |-> ""]

Err(msg) == [tag |-> "Err", variant |-> "", event |-> NoEvent, msg |-> msg]

\* D::Error::missing_field(name)
MissingField(name) == "missing field " \o name

(***************************************************************************)
(* The per-kind, Invalid* and Custom* decodes (from_value::<T>)              *)
(***************************************************************************)
\* the taxonomy level a struct commits to: event!, room_event! or state_event!
LevelOf(kd) ==
    IF kd \in BasicKinds THEN "basic"
    ELSE IF kd \in RoomOnlyKinds THEN "room" ELSE "state"

\* the envelope fields a struct of a level requires besides `type`
EnvelopeFields(level) ==
    IF level = "basic" THEN <<>>
    ELSE IF level = "room" THEN <<"event_id", "room_id", "sender">>
    ELSE <<"event_id", "room_id", "sender", "state_key">>

\* the error of decoding one required string field, "" when it decodes
FieldError(v, f) ==
    IF Get(v, f).k = "absent" THEN MissingField(f)
    ELSE IF Get(v, f).k # "str" THEN "invalid type for " \o f
    ELSE ""

\* the first error among the required envelope fields, "" when all decode
RECURSIVE EnvelopeError(_, _)
EnvelopeError(v, fields) ==
    IF fields = <<>> THEN ""
    ELSE IF FieldError(v, Head(fields)) # "" THEN FieldError(v, Head(fields))
    ELSE EnvelopeError(v, Tail(fields))

\* the error of decoding `content` as the content type of kind kd, "" when it
\* decodes: MemberEventContent requires `membership`, one of MembershipState
ContentError(kd, c) ==
    IF c.k = "absent" THEN MissingField("content")
    ELSE IF c.for # kd \/ c.req.k = "absent"
         THEN (IF kd = "RoomMember" THEN MissingField("membership")
               ELSE IF kd = "Typing" THEN MissingField("user_ids")
               ELSE MissingField("of the content"))
    ELSE IF kd = "RoomMember" /\ c.req.s \notin MembershipStates
         THEN "unknown variant of MembershipState"
    ELSE ""

\* the struct a decode of a level builds: fields the struct does not declare
\* are dropped, TypingEvent keeps its optional room_id
Struct(name, level, v, keepRoomId) ==
    [struct |-> name,
     event_type |-> FromValueEventType(Get(v, "type")).val,
     content |-> Get(v, "content"),
     event_id |-> IF level = "basic" THEN Absent ELSE Get(v, "event_id"),
     room_id |-> IF level = "basic" /\ ~keepRoomId THEN Absent ELSE Get(v, "room_id"),
     sender |-> IF level = "basic" THEN Absent ELSE Get(v, "sender"),
     state_key |-> IF level = "state" THEN Get(v, "state_key") ELSE Absent,
     error |-> ""]

\* the error of from_value::<T> for the struct of kind kd, "" when it decodes
KindError(kd, v) ==
    IF v.k # "obj" THEN "invalid type: expected a struct"
    ELSE IF ContentError(kd, Get(v, "content")) # ""
         THEN ContentError(kd, Get(v, "content"))
    ELSE IF kd = "Typing" /\ Get(v, "room_id").k \notin {"absent", "str"}
         THEN "invalid type for room_id"
    ELSE EnvelopeError(v, EnvelopeFields(LevelOf(kd)))

\* from_value::<T>(value) for the struct T of a registered kind
FromValueKind(kd, v) ==
    IF KindError(kd, v) = ""
    THEN [ok |-> TRUE, msg |-> "",
          val |-> Struct(StructOf[kd], LevelOf(kd), v, kd = "Typing")]
    ELSE [ok |-> FALSE, msg |-> KindError(kd, v), val |-> NoEvent]

\* the name of the Invalid* struct of a level
InvalidName(level) ==
    IF level = "basic" THEN "InvalidEvent"
    ELSE IF level = "room" THEN "InvalidRoomEvent" ELSE "InvalidStateEvent"

\* from_value::<Invalid*Event>: the envelope of the level must decode, the
\* content is kept raw
FromValueInvalid(level, v) ==
    IF v.k # "obj" THEN [ok |-> FALSE, msg |-> "invalid type: expected a struct", val |-> NoEvent]
    ELSE IF EnvelopeError(v, EnvelopeFields(level)) # ""
         THEN [ok |-> FALSE, msg |-> EnvelopeError(v, EnvelopeFields(level)), val |-> NoEvent]
    ELSE [ok |-> TRUE, msg |-> "", val |-> Struct(InvalidName(level), level, v, FALSE)]

\* Invalid*Event::with_error
WithError(event, error) == [event EXCEPT !.error = error]

\* the name of the Custom* struct of a level
CustomName(level) ==
    IF level = "basic" THEN "CustomEvent"
    ELSE IF level = "room" THEN "CustomRoomEvent" ELSE "CustomStateEvent"

\* from_value::<Custom*Event>: `content` (any value) and the envelope of the
\* level must decode
FromValueCustom(level, v) ==
    IF v.k # "obj" THEN [ok |-> FALSE, msg |-> "invalid type: expected a struct", val |-> NoEvent]
    ELSE IF Get(v, "content").k = "absent"
         THEN [ok |-> FALSE, msg |-> MissingField("content"), val |-> NoEvent]
    ELSE IF EnvelopeError(v, EnvelopeFields(level)) # ""
         THEN [ok |-> FALSE, msg |-> EnvelopeError(v, EnvelopeFields(level)), val |-> NoEvent]
    ELSE [ok |-> TRUE, msg |-> "", val |-> Struct(CustomName(level), level, v, FALSE)]

(***************************************************************************)
(* The union decoders                                                        *)
(***************************************************************************)
\* invalid_event building the InvalidEvent without the document's content
InvalidEventWithoutContent(v, error) ==
    IF FromValueInvalid("basic", v).ok
    THEN Ok("Invalid",
            WithError([FromValueInvalid("basic", v).val EXCEPT !.content = NoContent], error))
    ELSE Err(FromValueInvalid("basic", v).msg)

\* the invalid_event closure: re-decode as InvalidEvent and attach the error
InvalidEvent(v, error) ==
    IF FromValueInvalid("basic", v).ok
    THEN Ok("Invalid", WithError(FromValueInvalid("basic", v).val, error))
    ELSE Err(FromValueInvalid("basic", v).msg)

\* invalid_room_event returning, when its own decode fails, the message of the
\* per-kind failure it was handed
InvalidRoomEventFirstError(v, error) ==
    IF FromValueInvalid("room", v).ok
    THEN Ok("InvalidRoom", WithError(FromValueInvalid("room", v).val, error))
    ELSE Err(error)

\* the invalid_room_event closure
InvalidRoomEvent(v, error) ==
    IF FromValueInvalid("room", v).ok
    THEN Ok("InvalidRoom", WithError(FromValueInvalid("room", v).val, error))
    ELSE Err(FromValueInvalid("room", v).msg)

\* invalid_state_event without the recovery: the first failure is returned
InvalidStateEventNoRecovery(v, error) ==
    Err(error)

\* the invalid_state_event closure
InvalidStateEvent(v, error) ==
    IF FromValueInvalid("state", v).ok
    THEN Ok("InvalidState", WithError(FromValueInvalid("state", v).val, error))
    ELSE Err(FromValueInvalid("state", v).msg)

\* the call of one of the three closures by name
CallInvalid(invalid, v, error) ==
    CASE invalid = "invalid_event" -> InvalidEvent(v, error)
      [] invalid = "invalid_room_event" -> InvalidRoomEvent(v, error)
      [] invalid = "invalid_state_event" -> InvalidStateEvent(v, error)

\* an arm handing its invalid closure a fixed text in place of the message of
\* the failed per-kind decode
ArmFixedMessage(kd, v, invalid) ==
    IF FromValueKind(kd, v).ok
    THEN Ok(kd, FromValueKind(kd, v).val)
    ELSE CallInvalid(invalid, v, "invalid event")

\* one arm of a dispatch: the per-kind decode wrapped in the variant of the
\* kind, or on failure the arm's invalid closure applied to its message
Arm(kd, v, invalid) ==
    IF FromValueKind(kd, v).ok
    THEN Ok(kd, FromValueKind(kd, v).val)
    ELSE CallInvalid(invalid, v, FromValueKind(kd, v).msg)

\* a Custom arm that swallows the failure of its decode and returns a
\* variant holding nothing
CustomArmSwallowsError(variant, level, v) ==
    IF FromValueCustom(level, v).ok
    THEN Ok(variant, FromValueCustom(level, v).val)
    ELSE Ok(variant, NoEvent)

\* a Custom arm: the decode into the Custom* struct of a level, its failure
\* returned as the error
CustomArm(variant, level, v) ==
    IF FromValueCustom(level, v).ok
    THEN Ok(variant, FromValueCustom(level, v).val)
    ELSE Err(FromValueCustom(level, v).msg)

\* all::Event with the room-shape check made before the state-shape check
AllEventMatchRoomCheckFirst(et, v) ==
    CASE et \in {"CallAnswer", "CallCandidates", "CallHangup", "CallInvite",
                 "RoomMessage", "RoomRedaction"} ->
            Arm(et, v, "invalid_room_event")
      [] et \in {"Presence", "Receipt", "Tag", "Typing"} ->
            Arm(et, v, "invalid_event")
      [] et \in {"RoomAliases", "RoomAvatar", "RoomCanonicalAlias", "RoomCreate",
                 "RoomGuestAccess", "RoomHistoryVisibility", "RoomJoinRules",
                 "RoomMember", "RoomName", "RoomPowerLevels",
                 "RoomThirdPartyInvite", "RoomTopic"} ->
            Arm(et, v, "invalid_state_event")
      [] et = "Custom" ->
            IF IsSome(v, "event_id") /\ IsSome(v, "room_id") /\ IsSome(v, "sender")
            THEN CustomArm("CustomRoom", "room", v)
            ELSE IF IsSome(v, "state_key")
                 THEN CustomArm("CustomState", "state", v)
                 ELSE CustomArm("Custom", "basic", v)

\* all::Event with the RoomTopic arm left out, so that the tag falls through
\* to the Custom routing
AllEventMatchTopicFallsThrough(et, v) ==
    CASE et \in {"CallAnswer", "CallCandidates", "CallHangup", "CallInvite",
                 "RoomMessage", "RoomRedaction"} ->
            Arm(et, v, "invalid_room_event")
      [] et \in {"Presence", "Receipt", "Tag", "Typing"} ->
            Arm(et, v, "invalid_event")
      [] et \in {"RoomAliases", "RoomAvatar", "RoomCanonicalAlias", "RoomCreate",
                 "RoomGuestAccess", "RoomHistoryVisibility", "RoomJoinRules",
                 "RoomMember", "RoomName", "RoomPowerLevels",
                 "RoomThirdPartyInvite"} ->
            Arm(et, v, "invalid_state_event")
      [] OTHER ->
            IF IsSome(v, "state_key")
            THEN CustomArm("CustomState", "state", v)
            ELSE IF IsSome(v, "event_id") /\ IsSome(v, "room_id") /\ IsSome(v, "sender")
                 THEN CustomArm("CustomRoom", "room", v)
                 ELSE CustomArm("Custom", "basic", v)

\* all::Event with a failed Custom decode handed to the invalid closure of its
\* level instead of returned
AllEventMatchCustomFallsBack(et, v) ==
    CASE et \in {"CallAnswer", "CallCandidates", "CallHangup", "CallInvite",
                 "RoomMessage", "RoomRedaction"} ->
            Arm(et, v, "invalid_room_event")
      [] et \in {"Presence", "Receipt", "Tag", "Typing"} ->
            Arm(et, v, "invalid_event")
      [] et \in {"RoomAliases", "RoomAvatar", "RoomCanonicalAlias", "RoomCreate",
                 "RoomGuestAccess", "RoomHistoryVisibility", "RoomJoinRules",
                 "RoomMember", "RoomName", "RoomPowerLevels",
                 "RoomThirdPartyInvite", "RoomTopic"} ->
            Arm(et, v, "invalid_state_event")
      [] et = "Custom" ->
            IF IsSome(v, "state_key")
            THEN (IF FromValueCustom("state", v).ok
                  THEN CustomArm("CustomState", "state", v)
                  ELSE InvalidStateEvent(v, FromValueCustom("state", v).msg))
            ELSE IF IsSome(v, "event_id") /\ IsSome(v, "room_id") /\ IsSome(v, "sender")
                 THEN (IF FromValueCustom("room", v).ok
                       THEN CustomArm("CustomRoom", "room", v)
                       ELSE InvalidRoomEvent(v, FromValueCustom("room", v).msg))
                 ELSE (IF FromValueCustom("basic", v).ok
                       THEN CustomArm("Custom", "basic", v)
                       ELSE InvalidEvent(v, FromValueCustom("basic", v).msg))

\* the dispatch of all::Event on the resolved EventType
AllEventMatch(et, v) ==
    CASE et \in {"CallAnswer", "CallCandidates", "CallHangup", "CallInvite",
                 "RoomMessage", "RoomRedaction"} ->
            Arm(et, v, "invalid_room_event")
      [] et \in {"Presence", "Receipt", "Tag", "Typing"} ->
            Arm(et, v, "invalid_event")
      [] et \in {"RoomAliases", "RoomAvatar", "RoomCanonicalAlias", "RoomCreate",
                 "RoomGuestAccess", "RoomHistoryVisibility", "RoomJoinRules",
                 "RoomMember", "RoomName", "RoomPowerLevels",
                 "RoomThirdPartyInvite", "RoomTopic"} ->
            Arm(et, v, "invalid_state_event")
      [] et = "Custom" ->
            IF IsSome(v, "state_key")
            THEN CustomArm("CustomState", "state", v)
            ELSE IF IsSome(v, "event_id") /\ IsSome(v, "room_id") /\ IsSome(v, "sender")
                 THEN CustomArm("CustomRoom", "room", v)
                 ELSE CustomArm("Custom", "basic", v)

\* <all::Event as Deserialize>::deserialize
AllEventDeserialize(v) ==
    IF ~IsSome(v, "type") THEN Err(MissingField("type"))
    ELSE IF ~FromValueEventType(Get(v, "type")).ok
         THEN Err(FromValueEventType(Get(v, "type")).msg)
         ELSE AllEventMatch(FromValueEventType(Get(v, "type")).val.name, v)

\* all::RoomEvent routing every unregistered tag to CustomRoom, without the
\* state_key check
AllRoomEventMatchNoStateKeyCheck(et, v) ==
    CASE et \in {"CallAnswer", "CallCandidates", "CallHangup", "CallInvite",
                 "RoomMessage", "RoomRedaction"} ->
            Arm(et, v, "invalid_room_event")
      [] et \in {"RoomAliases", "RoomAvatar", "RoomCanonicalAlias", "RoomCreate",
                 "RoomGuestAccess", "RoomHistoryVisibility", "RoomJoinRules",
                 "RoomMember", "RoomName", "RoomPowerLevels",
                 "RoomThirdPartyInvite", "RoomTopic"} ->
            Arm(et, v, "invalid_state_event")
      [] et = "Custom" ->
            CustomArm("CustomRoom", "room", v)
      [] et \in {"Presence", "Receipt", "Tag", "Typing"} ->
            Err("not a room event")

\* all::RoomEvent with the three-way Custom routing of all::Event
AllRoomEventMatchBasicCustom(et, v) ==
    CASE et \in {"CallAnswer", "CallCandidates", "CallHangup", "CallInvite",
                 "RoomMessage", "RoomRedaction"} ->
            Arm(et, v, "invalid_room_event")
      [] et \in {"RoomAliases", "RoomAvatar", "RoomCanonicalAlias", "RoomCreate",
                 "RoomGuestAccess", "RoomHistoryVisibility", "RoomJoinRules",
                 "RoomMember", "RoomName", "RoomPowerLevels",
                 "RoomThirdPartyInvite", "RoomTopic"} ->
            Arm(et, v, "invalid_state_event")
      [] et = "Custom" ->
            IF IsSome(v, "state_key")
            THEN CustomArm("CustomState", "state", v)
            ELSE IF IsSome(v, "event_id") /\ IsSome(v, "room_id") /\ IsSome(v, "sender")
                 THEN CustomArm("CustomRoom", "room", v)
                 ELSE CustomArm("Custom", "basic", v)
      [] et \in {"Presence", "Receipt", "Tag", "Typing"} ->
            Err("not a room event")

\* all::RoomEvent with the state kinds handed to invalid_room_event
AllRoomEventMatchStateFallsToRoom(et, v) ==
    CASE et \in {"CallAnswer", "CallCandidates", "CallHangup", "CallInvite",
                 "RoomMessage", "RoomRedaction"} ->
            Arm(et, v, "invalid_room_event")
      [] et \in {"RoomAliases", "RoomAvatar", "RoomCanonicalAlias", "RoomCreate",
                 "RoomGuestAccess", "RoomHistoryVisibility", "RoomJoinRules",
                 "RoomMember", "RoomName", "RoomPowerLevels",
                 "RoomThirdPartyInvite", "RoomTopic"} ->
            Arm(et, v, "invalid_room_event")
      [] et = "Custom" ->
            IF IsSome(v, "state_key")
            THEN CustomArm("CustomState", "state", v)
            ELSE CustomArm("CustomRoom", "room", v)
      [] et \in {"Presence", "Receipt", "Tag", "Typing"} ->
            Err("not a room event")

\* the dispatch of all::RoomEvent
AllRoomEventMatch(et, v) ==
    CASE et \in {"CallAnswer", "CallCandidates", "CallHangup", "CallInvite",
                 "RoomMessage", "RoomRedaction"} ->
            Arm(et, v, "invalid_room_event")
      [] et \in {"RoomAliases", "RoomAvatar", "RoomCanonicalAlias", "RoomCreate",
                 "RoomGuestAccess", "RoomHistoryVisibility", "RoomJoinRules",
                 "RoomMember", "RoomName", "RoomPowerLevels",
                 "RoomThirdPartyInvite", "RoomTopic"} ->
            Arm(et, v, "invalid_state_event")
      [] et = "Custom" ->
            IF IsSome(v, "state_key")
            THEN CustomArm("CustomState", "state", v)
            ELSE CustomArm("CustomRoom", "room", v)
      [] et \in {"Presence", "Receipt", "Tag", "Typing"} ->
            Err("not a room event")

\* all::RoomEvent without the presence check: the `type` it finds or not goes
\* straight to the EventType parse
AllRoomEventDeserializeNoPresenceCheck(v) ==
    IF ~FromValueEventType(Get(v, "type")).ok
    THEN Err(FromValueEventType(Get(v, "type")).msg)
    ELSE AllRoomEventMatch(FromValueEventType(Get(v, "type")).val.name, v)

\* <all::RoomEvent as Deserialize>::deserialize
AllRoomEventDeserialize(v) ==
    IF ~IsSome(v, "type") THEN Err(MissingField("type"))
    ELSE IF ~FromValueEventType(Get(v, "type")).ok
         THEN Err(FromValueEventType(Get(v, "type")).msg)
         ELSE AllRoomEventMatch(FromValueEventType(Get(v, "type")).val.name, v)

\* all::StateEvent with RoomMessage decoded instead of refused
AllStateEventMatchDecodesMessage(et, v) ==
    CASE et \in {"RoomAliases", "RoomAvatar", "RoomCanonicalAlias", "RoomCreate",
                 "RoomGuestAccess", "RoomHistoryVisibility", "RoomJoinRules",
                 "RoomMember", "RoomName", "RoomPowerLevels",
                 "RoomThirdPartyInvite", "RoomTopic"} ->
            Arm(et, v, "invalid_state_event")
      [] et = "RoomMessage" ->
            Arm(et, v, "invalid_room_event")
      [] et = "Custom" ->
            CustomArm("CustomState", "state", v)
      [] et \in {"CallAnswer", "CallCandidates", "CallHangup", "CallInvite",
                 "Presence", "Receipt", "RoomRedaction", "Tag",
                 "Typing"} ->
            Err("not a state event")

\* the dispatch of all::StateEvent
AllStateEventMatch(et, v) ==
    CASE et \in {"RoomAliases", "RoomAvatar", "RoomCanonicalAlias", "RoomCreate",
                 "RoomGuestAccess", "RoomHistoryVisibility", "RoomJoinRules",
                 "RoomMember", "RoomName", "RoomPowerLevels",
                 "RoomThirdPartyInvite", "RoomTopic"} ->
            Arm(et, v, "invalid_state_event")
      [] et = "Custom" ->
            CustomArm("CustomState", "state", v)
      [] et \in {"CallAnswer", "CallCandidates", "CallHangup", "CallInvite",
                 "Presence", "Receipt", "RoomMessage", "RoomRedaction", "Tag",
                 "Typing"} ->
            Err("not a state event")

\* all::StateEvent without the early return on a missing `type`: the document
\* is treated as one of an unregistered type
AllStateEventDeserializeNoTypeCheck(v) ==
    IF ~IsSome(v, "type") THEN AllStateEventMatch("Custom", v)
    ELSE IF ~FromValueEventType(Get(v, "type")).ok
         THEN Err(FromValueEventType(Get(v, "type")).msg)
         ELSE AllStateEventMatch(FromValueEventType(Get(v, "type")).val.name, v)

\* <all::StateEvent as Deserialize>::deserialize
AllStateEventDeserialize(v) ==
    IF ~IsSome(v, "type") THEN Err(MissingField("type"))
    ELSE IF ~FromValueEventType(Get(v, "type")).ok
         THEN Err(FromValueEventType(Get(v, "type")).msg)
         ELSE AllStateEventMatch(FromValueEventType(Get(v, "type")).val.name, v)

\* only::Event with m.typing among the kinds it refuses
OnlyEventMatchRefusesTyping(et, v) ==
    CASE et \in {"Presence", "Receipt", "Tag"} ->
            Arm(et, v, "invalid_event")
      [] et = "Custom" ->
            CustomArm("Custom", "basic", v)
      [] et \in {"CallAnswer", "CallCandidates", "CallHangup", "CallInvite",
                 "RoomAliases", "RoomAvatar", "RoomCanonicalAlias", "RoomCreate",
                 "RoomGuestAccess", "RoomHistoryVisibility", "RoomJoinRules",
                 "RoomMember", "RoomMessage", "RoomName", "RoomPowerLevels",
                 "RoomRedaction", "RoomThirdPartyInvite", "RoomTopic", "Typing"} ->
            Err("not exclusively a basic event")

\* the dispatch of only::Event
OnlyEventMatch(et, v) ==
    CASE et \in {"Presence", "Receipt", "Tag", "Typing"} ->
            Arm(et, v, "invalid_event")
      [] et = "Custom" ->
            CustomArm("Custom", "basic", v)
      [] et \in {"CallAnswer", "CallCandidates", "CallHangup", "CallInvite",
                 "RoomAliases", "RoomAvatar", "RoomCanonicalAlias", "RoomCreate",
                 "RoomGuestAccess", "RoomHistoryVisibility", "RoomJoinRules",
                 "RoomMember", "RoomMessage", "RoomName", "RoomPowerLevels",
                 "RoomRedaction", "RoomThirdPartyInvite", "RoomTopic"} ->
            Err("not exclusively a basic event")

\* <only::Event as Deserialize>::deserialize
OnlyEventDeserialize(v) ==
    IF ~IsSome(v, "type") THEN Err(MissingField("type"))
    ELSE IF ~FromValueEventType(Get(v, "type")).ok
         THEN Err(FromValueEventType(Get(v, "type")).msg)
         ELSE OnlyEventMatch(FromValueEventType(Get(v, "type")).val.name, v)

\* only::RoomEvent with the RoomMember arm of all::RoomEvent copied in
OnlyRoomEventMatchWithMember(et, v) ==
    CASE et \in {"CallAnswer", "CallCandidates", "CallHangup", "CallInvite",
                 "RoomMessage", "RoomRedaction"} ->
            Arm(et, v, "invalid_room_event")
      [] et = "RoomMember" ->
            Arm(et, v, "invalid_room_event")
      [] et = "Custom" ->
            CustomArm("CustomRoom", "room", v)
      [] et \in {"Presence", "Receipt", "RoomAliases", "RoomAvatar",
                 "RoomCanonicalAlias", "RoomCreate", "RoomGuestAccess",
                 "RoomHistoryVisibility", "RoomJoinRules",
                 "RoomName", "RoomPowerLevels", "RoomThirdPartyInvite",
                 "RoomTopic", "Tag", "Typing"} ->
            Err("not exclusively a room event")

\* the dispatch of only::RoomEvent
OnlyRoomEventMatch(et, v) ==
    CASE et \in {"CallAnswer", "CallCandidates", "CallHangup", "CallInvite",
                 "RoomMessage", "RoomRedaction"} ->
            Arm(et, v, "invalid_room_event")
      [] et = "Custom" ->
            CustomArm("CustomRoom", "room", v)
      [] et \in {"Presence", "Receipt", "RoomAliases", "RoomAvatar",
                 "RoomCanonicalAlias", "RoomCreate", "RoomGuestAccess",
                 "RoomHistoryVisibility", "RoomJoinRules", "RoomMember",
                 "RoomName", "RoomPowerLevels", "RoomThirdPartyInvite",
                 "RoomTopic", "Tag", "Typing"} ->
            Err("not exclusively a room event")

\* <only::RoomEvent as Deserialize>::deserialize
OnlyRoomEventDeserialize(v) ==
    IF ~IsSome(v, "type") THEN Err(MissingField("type"))
    ELSE IF ~FromValueEventType(Get(v, "type")).ok
         THEN Err(FromValueEventType(Get(v, "type")).msg)
         ELSE OnlyRoomEventMatch(FromValueEventType(Get(v, "type")).val.name, v)

(***************************************************************************)
(* The state machine: a document is decoded by each union, in any order      *)
(***************************************************************************)
Unions == {"all::Event", "all::RoomEvent", "all::StateEvent", "only::Event", "only::RoomEvent"}

\* no union value has been built
NoHeld == [variant |-> "", event |-> NoEvent]

\* no document has been handed to StrippedState's decoder
NoEntry == [k |-> "none"]

\* no enum value is being converted
NoConv == [enum |-> "", variant |-> "", display |-> "", parsed |-> "",
           written |-> "", read |-> ""]

Init ==
    /\ value \in Documents
    /\ out = [u \in Unions |-> NoResult]
    /\ concrete = NoEvent
    /\ held = [u \in Unions |-> NoHeld]
    /\ wire = [u \in Unions |-> NoDocument]
    /\ entry = NoEntry
    /\ stripped = NoResult
    /\ again = [u \in Unions |-> NoResult]
    /\ conv = NoConv

DeserializeAllEvent ==
    /\ value # NoDocument
    /\ out["all::Event"] = NoResult
    /\ out' = [out EXCEPT !["all::Event"] = AllEventDeserialize(value)]
    /\ UNCHANGED <<value, concrete, held, wire, entry, stripped, again, conv>>

DeserializeAllRoomEvent ==
    /\ value # NoDocument
    /\ out["all::RoomEvent"] = NoResult
    /\ out' = [out EXCEPT !["all::RoomEvent"] = AllRoomEventDeserialize(value)]
    /\ UNCHANGED <<value, concrete, held, wire, entry, stripped, again, conv>>

DeserializeAllStateEvent ==
    /\ value # NoDocument
    /\ out["all::StateEvent"] = NoResult
    /\ out' = [out EXCEPT !["all::StateEvent"] = AllStateEventDeserialize(value)]
    /\ UNCHANGED <<value, concrete, held, wire, entry, stripped, again, conv>>

DeserializeOnlyEvent ==
    /\ value # NoDocument
    /\ out["only::Event"] = NoResult
    /\ out' = [out EXCEPT !["only::Event"] = OnlyEventDeserialize(value)]
    /\ UNCHANGED <<value, concrete, held, wire, entry, stripped, again, conv>>

DeserializeOnlyRoomEvent ==
    /\ value # NoDocument
    /\ out["only::RoomEvent"] = NoResult
    /\ out' = [out EXCEPT !["only::RoomEvent"] = OnlyRoomEventDeserialize(value)]
    /\ UNCHANGED <<value, concrete, held, wire, entry, stripped, again, conv>>

Next ==
    \/ DeserializeAllEvent
    \/ DeserializeAllRoomEvent
    \/ DeserializeAllStateEvent
    \/ DeserializeOnlyEvent
    \/ DeserializeOnlyRoomEvent

Spec == Init /\ [][Next]_vars

(***************************************************************************)
(* Serialization and the From conversions                                    *)
(***************************************************************************)
\* the derived Serialize of an event struct: the fields the struct holds, the
\* event type as its wire string, an Option that is None left out; the error
\* of an Invalid* struct is not written
SerializeStruct(e) ==
    [k |-> "obj", type |-> Str(EventTypeWire(e.event_type)), content |-> e.content,
     event_id |-> e.event_id, room_id |-> e.room_id, sender |-> e.sender,
     state_key |-> e.state_key]

\* an object whose only key is a variant name, as an externally tagged enum
\* is written: it has none of an event's top-level fields
TaggedObject ==
    [k |-> "obj", type |-> Absent, content |-> NoContent, event_id |-> Absent,
     room_id |-> Absent, sender |-> Absent, state_key |-> Absent]

\* all::Event written as a derived, externally tagged enum
AllEventSerializeTagged(h) ==
    TaggedObject

\* <all::Event as Serialize>::serialize: every variant delegates to its value
AllEventSerialize(h) ==
    CASE h.variant \in
            {"CallAnswer", "CallCandidates", "CallHangup", "CallInvite",
             "Presence", "Receipt", "RoomAliases", "RoomAvatar",
             "RoomCanonicalAlias", "RoomCreate", "RoomGuestAccess",
             "RoomHistoryVisibility", "RoomJoinRules", "RoomMember",
             "RoomMessage", "RoomName", "RoomPowerLevels", "RoomRedaction",
             "RoomThirdPartyInvite", "RoomTopic", "Tag", "Typing", "Invalid",
             "Custom", "InvalidRoom", "CustomRoom", "InvalidState",
             "CustomState"} ->
            SerializeStruct(h.event)

\* <all::RoomEvent as Serialize>::serialize
AllRoomEventSerialize(h) ==
    CASE h.variant \in
            {"CallAnswer", "CallCandidates", "CallHangup", "CallInvite",
             "RoomAliases", "RoomAvatar", "RoomCanonicalAlias", "RoomCreate",
             "RoomGuestAccess", "RoomHistoryVisibility", "RoomJoinRules",
             "RoomMember", "RoomMessage", "RoomName", "RoomPowerLevels",
             "RoomRedaction", "RoomThirdPartyInvite", "RoomTopic",
             "InvalidRoom", "CustomRoom", "InvalidState", "CustomState"} ->
            SerializeStruct(h.event)

\* all::StateEvent written as a derived, externally tagged enum
AllStateEventSerializeTagged(h) ==
    TaggedObject

\* <all::StateEvent as Serialize>::serialize
AllStateEventSerialize(h) ==
    CASE h.variant \in
            {"RoomAliases", "RoomAvatar", "RoomCanonicalAlias", "RoomCreate",
             "RoomGuestAccess", "RoomHistoryVisibility", "RoomJoinRules",
             "RoomMember", "RoomName", "RoomPowerLevels",
             "RoomThirdPartyInvite", "RoomTopic", "InvalidState",
             "CustomState"} ->
            SerializeStruct(h.event)

\* only::Event written as a derived, externally tagged enum
OnlyEventSerializeTagged(h) ==
    TaggedObject

\* <only::Event as Serialize>::serialize
OnlyEventSerialize(h) ==
    CASE h.variant \in {"Presence", "Receipt", "Tag", "Typing", "Invalid", "Custom"} ->
            SerializeStruct(h.event)

\* <only::RoomEvent as Serialize>::serialize
OnlyRoomEventSerialize(h) ==
    CASE h.variant \in
            {"CallAnswer", "CallCandidates", "CallHangup", "CallInvite",
             "RoomMessage", "RoomRedaction", "InvalidRoom", "CustomRoom"} ->
            SerializeStruct(h.event)

\* the variants of enum Event and the struct each holds
AllEventVariants ==
    {<<"CallAnswer", "AnswerEvent">>,
     <<"CallCandidates", "CandidatesEvent">>,
     <<"CallHangup", "HangupEvent">>, <<"CallInvite", "InviteEvent">>,
     <<"Presence", "PresenceEvent">>, <<"Receipt", "ReceiptEvent">>,
     <<"RoomAliases", "AliasesEvent">>, <<"RoomAvatar", "AvatarEvent">>,
     <<"RoomCanonicalAlias", "CanonicalAliasEvent">>,
     <<"RoomCreate", "CreateEvent">>,
     <<"RoomGuestAccess", "GuestAccessEvent">>,
     <<"RoomHistoryVisibility", "HistoryVisibilityEvent">>,
     <<"RoomJoinRules", "JoinRulesEvent">>, <<"RoomMember", "MemberEvent">>,
     <<"RoomMessage", "MessageEvent">>, <<"RoomName", "NameEvent">>,
     <<"RoomPowerLevels", "PowerLevelsEvent">>,
     <<"RoomRedaction", "RedactionEvent">>,
     <<"RoomThirdPartyInvite", "ThirdPartyInviteEvent">>,
     <<"RoomTopic", "TopicEvent">>, <<"Tag", "TagEvent">>,
     <<"Typing", "TypingEvent">>, <<"Invalid", "InvalidEvent">>,
     <<"Custom", "CustomEvent">>, <<"InvalidRoom", "InvalidRoomEvent">>,
     <<"CustomRoom", "CustomRoomEvent">>,
     <<"InvalidState", "InvalidStateEvent">>,
     <<"CustomState", "CustomStateEvent">>}

\* the variants of enum RoomEvent and the struct each holds
AllRoomEventVariants ==
    {<<"CallAnswer", "AnswerEvent">>,
     <<"CallCandidates", "CandidatesEvent">>,
     <<"CallHangup", "HangupEvent">>, <<"CallInvite", "InviteEvent">>,
     <<"RoomAliases", "AliasesEvent">>, <<"RoomAvatar", "AvatarEvent">>,
     <<"RoomCanonicalAlias", "CanonicalAliasEvent">>,
     <<"RoomCreate", "CreateEvent">>,
     <<"RoomGuestAccess", "GuestAccessEvent">>,
     <<"RoomHistoryVisibility", "HistoryVisibilityEvent">>,
     <<"RoomJoinRules", "JoinRulesEvent">>, <<"RoomMember", "MemberEvent">>,
     <<"RoomMessage", "MessageEvent">>, <<"RoomName", "NameEvent">>,
     <<"RoomPowerLevels", "PowerLevelsEvent">>,
     <<"RoomRedaction", "RedactionEvent">>,
     <<"RoomThirdPartyInvite", "ThirdPartyInviteEvent">>,
     <<"RoomTopic", "TopicEvent">>, <<"InvalidRoom", "InvalidRoomEvent">>,
     <<"CustomRoom", "CustomRoomEvent">>,
     <<"InvalidState", "InvalidStateEvent">>,
     <<"CustomState", "CustomStateEvent">>}

\* the variants of enum StateEvent and the struct each holds
AllStateEventVariants ==
    {<<"RoomAliases", "AliasesEvent">>, <<"RoomAvatar", "AvatarEvent">>,
     <<"RoomCanonicalAlias", "CanonicalAliasEvent">>,
     <<"RoomCreate", "CreateEvent">>,
     <<"RoomGuestAccess", "GuestAccessEvent">>,
     <<"RoomHistoryVisibility", "HistoryVisibilityEvent">>,
     <<"RoomJoinRules", "JoinRulesEvent">>, <<"RoomMember", "MemberEvent">>,
     <<"RoomName", "NameEvent">>, <<"RoomPowerLevels", "PowerLevelsEvent">>,
     <<"RoomThirdPartyInvite", "ThirdPartyInviteEvent">>,
     <<"RoomTopic", "TopicEvent">>, <<"InvalidState", "InvalidStateEvent">>,
     <<"CustomState", "CustomStateEvent">>}

\* the variants of enum only::Event and the struct each holds
OnlyEventVariants ==
    {<<"Presence", "PresenceEvent">>, <<"Receipt", "ReceiptEvent">>,
     <<"Tag", "TagEvent">>, <<"Typing", "TypingEvent">>,
     <<"Invalid", "InvalidEvent">>, <<"Custom", "CustomEvent">>}

\* the variants of enum only::RoomEvent and the struct each holds
OnlyRoomEventVariants ==
    {<<"CallAnswer", "AnswerEvent">>,
     <<"CallCandidates", "CandidatesEvent">>,
     <<"CallHangup", "HangupEvent">>, <<"CallInvite", "InviteEvent">>,
     <<"RoomMessage", "MessageEvent">>,
     <<"RoomRedaction", "RedactionEvent">>,
     <<"InvalidRoom", "InvalidRoomEvent">>,
     <<"CustomRoom", "CustomRoomEvent">>}

\* the variants of a union
Variants(u) ==
    CASE u = "all::Event" -> AllEventVariants
      [] u = "all::RoomEvent" -> AllRoomEventVariants
      [] u = "all::StateEvent" -> AllStateEventVariants
      [] u = "only::Event" -> OnlyEventVariants
      [] u = "only::RoomEvent" -> OnlyRoomEventVariants

\* impl_from_t_for_event!(ty, variant) of all.rs
AllEventFromImpls ==
    {<<"AnswerEvent", "CallAnswer">>, <<"CandidatesEvent", "CallCandidates">>,
     <<"HangupEvent", "CallHangup">>, <<"InviteEvent", "CallInvite">>,
     <<"PresenceEvent", "Presence">>, <<"ReceiptEvent", "Receipt">>,
     <<"AliasesEvent", "RoomAliases">>, <<"AvatarEvent", "RoomAvatar">>,
     <<"CanonicalAliasEvent", "RoomCanonicalAlias">>, <<"CreateEvent", "RoomCreate">>,
     <<"GuestAccessEvent", "RoomGuestAccess">>,
     <<"HistoryVisibilityEvent", "RoomHistoryVisibility">>,
     <<"JoinRulesEvent", "RoomJoinRules">>, <<"MemberEvent", "RoomMember">>,
     <<"MessageEvent", "RoomMessage">>, <<"NameEvent", "RoomName">>,
     <<"PowerLevelsEvent", "RoomPowerLevels">>, <<"RedactionEvent", "RoomRedaction">>,
     <<"ThirdPartyInviteEvent", "RoomThirdPartyInvite">>, <<"TopicEvent", "RoomTopic">>,
     <<"TagEvent", "Tag">>, <<"TypingEvent", "Typing">>,
     <<"CustomEvent", "Custom">>, <<"CustomRoomEvent", "CustomRoom">>,
     <<"CustomStateEvent", "CustomState">>}

\* impl_from_t_for_room_event!(ty, variant) of all.rs
AllRoomEventFromImpls ==
    {<<"AnswerEvent", "CallAnswer">>, <<"CandidatesEvent", "CallCandidates">>,
     <<"HangupEvent", "CallHangup">>, <<"InviteEvent", "CallInvite">>,
     <<"AliasesEvent", "RoomAliases">>, <<"AvatarEvent", "RoomAvatar">>,
     <<"CanonicalAliasEvent", "RoomCanonicalAlias">>, <<"CreateEvent", "RoomCreate">>,
     <<"GuestAccessEvent", "RoomGuestAccess">>,
     <<"HistoryVisibilityEvent", "RoomHistoryVisibility">>,
     <<"JoinRulesEvent", "RoomJoinRules">>, <<"MemberEvent", "RoomMember">>,
     <<"MessageEvent", "RoomMessage">>, <<"NameEvent", "RoomName">>,
     <<"PowerLevelsEvent", "RoomPowerLevels">>, <<"RedactionEvent", "RoomRedaction">>,
     <<"ThirdPartyInviteEvent", "RoomThirdPartyInvite">>, <<"TopicEvent", "RoomTopic">>,
     <<"CustomRoomEvent", "CustomRoom">>, <<"CustomStateEvent", "CustomState">>}

\* impl_from_t_for_state_event!(ty, variant) of all.rs
AllStateEventFromImpls ==
    {<<"AliasesEvent", "RoomAliases">>, <<"AvatarEvent", "RoomAvatar">>,
     <<"CanonicalAliasEvent", "RoomCanonicalAlias">>, <<"CreateEvent", "RoomCreate">>,
     <<"GuestAccessEvent", "RoomGuestAccess">>,
     <<"HistoryVisibilityEvent", "RoomHistoryVisibility">>,
     <<"JoinRulesEvent", "RoomJoinRules">>, <<"MemberEvent", "RoomMember">>,
     <<"NameEvent", "RoomName">>, <<"PowerLevelsEvent", "RoomPowerLevels">>,
     <<"ThirdPartyInviteEvent", "RoomThirdPartyInvite">>, <<"TopicEvent", "RoomTopic">>,
     <<"CustomStateEvent", "CustomState">>}

\* impl_from_t_for_event!(ty, variant) of only.rs
OnlyEventFromImpls ==
    {<<"PresenceEvent", "Presence">>, <<"ReceiptEvent", "Receipt">>,
     <<"TagEvent", "Tag">>, <<"TypingEvent", "Typing">>, <<"CustomEvent", "Custom">>}

\* only::RoomEvent with a From impl for MemberEvent as well
OnlyRoomEventFromImplsWithMember ==
    {<<"AnswerEvent", "CallAnswer">>, <<"CandidatesEvent", "CallCandidates">>,
     <<"HangupEvent", "CallHangup">>, <<"InviteEvent", "CallInvite">>,
     <<"MemberEvent", "RoomMember">>,
     <<"MessageEvent", "RoomMessage">>, <<"RedactionEvent", "RoomRedaction">>,
     <<"CustomRoomEvent", "CustomRoom">>}

\* impl_from_t_for_room_event!(ty, variant) of only.rs
OnlyRoomEventFromImpls ==
    {<<"AnswerEvent", "CallAnswer">>, <<"CandidatesEvent", "CallCandidates">>,
     <<"HangupEvent", "CallHangup">>, <<"InviteEvent", "CallInvite">>,
     <<"MessageEvent", "RoomMessage">>, <<"RedactionEvent", "RoomRedaction">>,
     <<"CustomRoomEvent", "CustomRoom">>}

\* the From impls of a union
FromImpls(u) ==
    CASE u = "all::Event" -> AllEventFromImpls
      [] u = "all::RoomEvent" -> AllRoomEventFromImpls
      [] u = "all::StateEvent" -> AllStateEventFromImpls
      [] u = "only::Event" -> OnlyEventFromImpls
      [] u = "only::RoomEvent" -> OnlyRoomEventFromImpls

\* From<ty> is implemented for the union
HasFrom(u, event) == \E p \in FromImpls(u) : p[1] = event.struct

\* From::from(event): the value placed in the variant of its impl
From(u, event) ==
    [variant |-> (CHOOSE p \in FromImpls(u) : p[1] = event.struct)[2], event |-> event]

\* Serialize::serialize of a union value
SerializeUnion(u, h) ==
    CASE u = "all::Event" -> AllEventSerialize(h)
      [] u = "all::RoomEvent" -> AllRoomEventSerialize(h)
      [] u = "all::StateEvent" -> AllStateEventSerialize(h)
      [] u = "only::Event" -> OnlyEventSerialize(h)
      [] u = "only::RoomEvent" -> OnlyRoomEventSerialize(h)

(***************************************************************************)
(* The round trip: a producer holds a per-kind value, lifts it into a union, *)
(* the union value is serialized and the document decoded again              *)
(***************************************************************************)
\* the kind whose variant holds a struct
KindOfStruct(name) == CHOOSE kd \in RegisteredKinds : StructOf[kd] = name

\* the values the content type of a kind has
TypedContents(kd) ==
    IF kd = "RoomMember" THEN { Content(kd, Str(m)) : m \in MembershipStates }
    ELSE { Content(kd, Str("ok")) }

\* the event types the pub field event_type of a value may hold: the tag of
\* its kind, the tag of another kind, an unregistered tag
EventTypesFor(kd) ==
    { EventTypeOf(t) : t \in {TagOf[kd], "m.room.message", "m.typing"} \cup CustomTags }

\* the per-kind values: every field of the struct's type
ConcreteValues ==
    UNION { { [struct |-> StructOf[kd], event_type |-> et, content |-> c,
               event_id |-> IF LevelOf(kd) = "basic" THEN Absent ELSE Str("id"),
               room_id |-> r,
               sender |-> IF LevelOf(kd) = "basic" THEN Absent ELSE Str("id"),
               state_key |-> IF LevelOf(kd) = "state" THEN Str("a") ELSE Absent,
               error |-> ""] :
                et \in EventTypesFor(kd), c \in TypedContents(kd),
                r \in (IF kd = "Typing" THEN {Absent, Str("id")}
                       ELSE IF LevelOf(kd) = "basic" THEN {Absent} ELSE {Str("id")}) } :
            kd \in RegisteredKinds }

InitRoundTrip ==
    /\ value = NoDocument
    /\ out = [u \in Unions |-> NoResult]
    /\ concrete \in ConcreteValues
    /\ held = [u \in Unions |-> NoHeld]
    /\ wire = [u \in Unions |-> NoDocument]
    /\ entry = NoEntry
    /\ stripped = NoResult
    /\ again = [u \in Unions |-> NoResult]
    /\ conv = NoConv

\* From::from(concrete) into union u
Lift(u) ==
    /\ value = NoDocument
    /\ held[u] = NoHeld
    /\ HasFrom(u, concrete)
    /\ held' = [held EXCEPT ![u] = From(u, concrete)]
    /\ UNCHANGED <<value, out, concrete, wire, entry, stripped, again, conv>>

\* serialize the value union u holds
Serialize(u) ==
    /\ value = NoDocument
    /\ held[u] # NoHeld
    /\ value' = SerializeUnion(u, held[u])
    /\ UNCHANGED <<out, concrete, held, wire, entry, stripped, again, conv>>

LiftAllEvent == Lift("all::Event")

LiftAllRoomEvent == Lift("all::RoomEvent")

LiftAllStateEvent == Lift("all::StateEvent")

LiftOnlyEvent == Lift("only::Event")

LiftOnlyRoomEvent == Lift("only::RoomEvent")

SerializeAllEvent == Serialize("all::Event")

SerializeAllRoomEvent == Serialize("all::RoomEvent")

SerializeAllStateEvent == Serialize("all::StateEvent")

SerializeOnlyEvent == Serialize("only::Event")

SerializeOnlyRoomEvent == Serialize("only::RoomEvent")

NextRoundTrip ==
    \/ LiftAllEvent
    \/ LiftAllRoomEvent
    \/ LiftAllStateEvent
    \/ LiftOnlyEvent
    \/ LiftOnlyRoomEvent
    \/ SerializeAllEvent
    \/ SerializeAllRoomEvent
    \/ SerializeAllStateEvent
    \/ SerializeOnlyEvent
    \/ SerializeOnlyRoomEvent
    \/ DeserializeAllEvent
    \/ DeserializeAllRoomEvent
    \/ DeserializeAllStateEvent
    \/ DeserializeOnlyEvent
    \/ DeserializeOnlyRoomEvent

SpecRoundTrip == InitRoundTrip /\ [][NextRoundTrip]_vars

(***************************************************************************)
(* Re-encoding: a document is decoded by one union, the union value the      *)
(* decoder returned is serialized, and the document written decoded again    *)
(***************************************************************************)
\* Deserialize::deserialize of a union
DeserializeUnion(u, v) ==
    CASE u = "all::Event" -> AllEventDeserialize(v)
      [] u = "all::RoomEvent" -> AllRoomEventDeserialize(v)
      [] u = "all::StateEvent" -> AllStateEventDeserialize(v)
      [] u = "only::Event" -> OnlyEventDeserialize(v)
      [] u = "only::RoomEvent" -> OnlyRoomEventDeserialize(v)

\* the document is decoded by union u, the only union of this run
Decode(u) ==
    /\ value # NoDocument
    /\ \A w \in Unions : out[w] = NoResult
    /\ out' = [out EXCEPT ![u] = DeserializeUnion(u, value)]
    /\ UNCHANGED <<value, concrete, held, wire, entry, stripped, again, conv>>

\* the union value that union u's decoder returned is serialized
Reserialize(u) ==
    /\ out[u] # NoResult
    /\ out[u].tag = "Ok"
    /\ wire[u] = NoDocument
    /\ wire' = [wire EXCEPT ![u] =
                    SerializeUnion(u, [variant |-> out[u].variant, event |-> out[u].event])]
    /\ UNCHANGED <<value, out, concrete, held, entry, stripped, again, conv>>

\* the document union u's serialize wrote is decoded by union u once more
Redecode(u) ==
    /\ wire[u] # NoDocument
    /\ again[u] = NoResult
    /\ again' = [again EXCEPT ![u] = DeserializeUnion(u, wire[u])]
    /\ UNCHANGED <<value, out, concrete, held, wire, entry, stripped, conv>>

DecodeAllEvent == Decode("all::Event")

DecodeAllRoomEvent == Decode("all::RoomEvent")

DecodeAllStateEvent == Decode("all::StateEvent")

DecodeOnlyEvent == Decode("only::Event")

DecodeOnlyRoomEvent == Decode("only::RoomEvent")

ReserializeAllEvent == Reserialize("all::Event")

ReserializeAllRoomEvent == Reserialize("all::RoomEvent")

ReserializeAllStateEvent == Reserialize("all::StateEvent")

ReserializeOnlyEvent == Reserialize("only::Event")

ReserializeOnlyRoomEvent == Reserialize("only::RoomEvent")

RedecodeAllEvent == Redecode("all::Event")

RedecodeAllRoomEvent == Redecode("all::RoomEvent")

RedecodeAllStateEvent == Redecode("all::StateEvent")

RedecodeOnlyEvent == Redecode("only::Event")

RedecodeOnlyRoomEvent == Redecode("only::RoomEvent")

NextReencode ==
    \/ DecodeAllEvent
    \/ DecodeAllRoomEvent
    \/ DecodeAllStateEvent
    \/ DecodeOnlyEvent
    \/ DecodeOnlyRoomEvent
    \/ ReserializeAllEvent
    \/ ReserializeAllRoomEvent
    \/ ReserializeAllStateEvent
    \/ ReserializeOnlyEvent
    \/ ReserializeOnlyRoomEvent
    \/ RedecodeAllEvent
    \/ RedecodeAllRoomEvent
    \/ RedecodeAllStateEvent
    \/ RedecodeOnlyEvent
    \/ RedecodeOnlyRoomEvent

SpecReencode == Init /\ [][NextReencode]_vars

(***************************************************************************)
(* StrippedState (src/stripped.rs): a derived, externally tagged enum whose  *)
(* entry on the wire is an object with the variant name as its single key    *)
(***************************************************************************)
\* enum StrippedState with a fifth variant, RoomTopic
StrippedStateVariantsWithTopic ==
    {<<"RoomAvatar", "RoomAvatar">>, <<"RoomCanonicalAlias", "RoomCanonicalAlias">>,
     <<"RoomJoinRules", "RoomJoinRules">>, <<"RoomName", "RoomName">>,
     <<"RoomTopic", "RoomTopic">>}

\* the variants of enum StrippedState, each with the kind whose content type
\* its StrippedStateContent<T> holds (the four type aliases)
StrippedStateVariants ==
    {<<"RoomAvatar", "RoomAvatar">>, <<"RoomCanonicalAlias", "RoomCanonicalAlias">>,
     <<"RoomJoinRules", "RoomJoinRules">>, <<"RoomName", "RoomName">>}

\* the fields struct StrippedStateContent<T> declares
StrippedStateContentFields == {"content", "event_type", "state_key"}

\* the state kinds the entries are written for
StrippedKinds ==
    {"RoomAvatar", "RoomCanonicalAlias", "RoomJoinRules", "RoomName",
     "RoomMember", "RoomTopic"}

\* the single key of an entry: a variant name, or "" for an object that is
\* the state event itself (type, content, state_key at its top level)
StrippedKeys == {""} \cup StrippedKinds

\* the entries handed to the decoder: not an object, or an object under a
\* key, with or without each field of a stripped event, with or without an
\* event_id
StrippedEntries ==
    {NonObject} \cup
    { [k |-> "obj", variant |-> key, content |-> c, type |-> t,
       state_key |-> sk, event_id |-> e] :
        key \in StrippedKeys,
        c \in {NoContent} \cup UNION { {Content(kd, Str("ok")), Content(kd, Absent)} :
                                        kd \in StrippedKinds },
        t \in {Absent, Num} \cup { Str(TagOf[kd]) : kd \in StrippedKinds }
                \cup { Str(s) : s \in CustomTags },
        sk \in StateKeyValues,
        e \in IdValues }

\* the error of the derived Deserialize of StrippedStateContent<T>, T the
\* content type of kind kd; "" when the three fields decode
StrippedStateContentError(kd, e) ==
    IF ContentError(kd, e.content) # "" THEN ContentError(kd, e.content)
    ELSE IF e.type.k = "absent" THEN MissingField("type")
    ELSE IF ~FromValueEventType(e.type).ok THEN FromValueEventType(e.type).msg
    ELSE FieldError(e, "state_key")

\* the StrippedStateContent<T> built from an entry: its three fields, any
\* other field of the entry ignored
StrippedStateContentFromValue(e) ==
    [content |-> e.content,
     event_type |-> FromValueEventType(e.type).val,
     state_key |-> e.state_key]

\* the derived Deserialize of enum StrippedState
StrippedStateDeserialize(e) ==
    IF e.k # "obj" THEN Err("invalid type: expected an enum")
    ELSE IF e.variant = "" THEN Err("expected a map with a single key")
    ELSE IF ~(\E p \in StrippedStateVariants : p[1] = e.variant)
         THEN Err("unknown variant")
    ELSE IF StrippedStateContentError(
                (CHOOSE p \in StrippedStateVariants : p[1] = e.variant)[2], e) # ""
         THEN Err(StrippedStateContentError(
                (CHOOSE p \in StrippedStateVariants : p[1] = e.variant)[2], e))
    ELSE Ok(e.variant, StrippedStateContentFromValue(e))

\* the derived Serialize of enum StrippedState: the variant name as the
\* single key, under it the three fields of StrippedStateContent<T>
StrippedStateSerialize(h) ==
    [k |-> "obj", variant |-> h.variant, content |-> h.event.content,
     type |-> Str(EventTypeWire(h.event.event_type)),
     state_key |-> h.event.state_key, event_id |-> Absent]

InitStripped ==
    /\ value = NoDocument
    /\ out = [u \in Unions |-> NoResult]
    /\ concrete = NoEvent
    /\ held = [u \in Unions |-> NoHeld]
    /\ wire = [u \in Unions |-> NoDocument]
    /\ entry \in StrippedEntries
    /\ stripped = NoResult
    /\ again = [u \in Unions |-> NoResult]
    /\ conv = NoConv

\* the entry is decoded as a StrippedState
DeserializeStripped ==
    /\ entry # NoEntry
    /\ stripped = NoResult
    /\ stripped' = StrippedStateDeserialize(entry)
    /\ UNCHANGED <<value, out, concrete, held, wire, entry, again, conv>>

\* the StrippedState the decoder returned is serialized
SerializeStripped ==
    /\ stripped.tag = "Ok"
    /\ value = NoDocument
    /\ value' = StrippedStateSerialize([variant |-> stripped.variant, event |-> stripped.event])
    /\ UNCHANGED <<out, concrete, held, wire, entry, stripped, again, conv>>

NextStripped ==
    \/ DeserializeStripped
    \/ SerializeStripped

SpecStripped == InitStripped /\ [][NextStripped]_vars

(***************************************************************************)
(* The string enums: MembershipState (src/room/member.rs) and                *)
(* SessionDescriptionType (src/call/mod.rs), each with a serde rename per    *)
(* variant and an impl_enum! table                                           *)
(***************************************************************************)
\* impl_enum! { MembershipState { .. } } with one string mistyped
MembershipStateImplEnumTypo ==
    [v \in {"Ban", "Invite", "Join", "Knock", "Leave"} |->
        CASE v = "Ban" -> "ban"
          [] v = "Invite" -> "invite"
          [] v = "Join" -> "join"
          [] v = "Knock" -> "knok"
          [] v = "Leave" -> "leave"]

\* #[serde(rename = "..")] of each variant of enum MembershipState
MembershipStateRename ==
    [v \in {"Ban", "Invite", "Join", "Knock", "Leave"} |->
        CASE v = "Ban" -> "ban"
          [] v = "Invite" -> "invite"
          [] v = "Join" -> "join"
          [] v = "Knock" -> "knock"
          [] v = "Leave" -> "leave"]

\* impl_enum! { MembershipState { Ban => "ban", .. } }
MembershipStateImplEnum ==
    [v \in {"Ban", "Invite", "Join", "Knock", "Leave"} |->
        CASE v = "Ban" -> "ban"
          [] v = "Invite" -> "invite"
          [] v = "Join" -> "join"
          [] v = "Knock" -> "knock"
          [] v = "Leave" -> "leave"]

\* #[serde(rename = "..")] of each variant of enum SessionDescriptionType
SessionDescriptionTypeRename ==
    [v \in {"Answer", "Offer"} |->
        CASE v = "Answer" -> "answer"
          [] v = "Offer" -> "offer"]

\* impl_enum! { SessionDescriptionType { Answer => "answer", Offer => "offer" } }
SessionDescriptionTypeImplEnum ==
    [v \in {"Answer", "Offer"} |->
        CASE v = "Answer" -> "answer"
          [] v = "Offer" -> "offer"]

StringEnums == {"MembershipState", "SessionDescriptionType"}

\* the serde renames of an enum
Rename(enum) ==
    IF enum = "MembershipState" THEN MembershipStateRename
    ELSE SessionDescriptionTypeRename

\* the impl_enum! table of an enum
ImplEnum(enum) ==
    IF enum = "MembershipState" THEN MembershipStateImplEnum
    ELSE SessionDescriptionTypeImplEnum

\* Display (to_string) as impl_enum! writes it: the string of the variant
Display(enum, v) == ImplEnum(enum)[v]

\* FromStr as impl_enum! writes it: the variant of the string, or an error
FromStr(enum, s) ==
    IF \E v \in DOMAIN ImplEnum(enum) : ImplEnum(enum)[v] = s
    THEN CHOOSE v \in DOMAIN ImplEnum(enum) : ImplEnum(enum)[v] = s
    ELSE "ParseError"

\* the derived Serialize of a unit variant: its renamed string
SerdeSerialize(enum, v) == Rename(enum)[v]

\* the derived Deserialize: the variant with that rename, or an error
SerdeDeserialize(enum, s) ==
    IF \E v \in DOMAIN Rename(enum) : Rename(enum)[v] = s
    THEN CHOOSE v \in DOMAIN Rename(enum) : Rename(enum)[v] = s
    ELSE "unknown variant"

\* strings that are no variant's string, handed to the parsers
ForeignStrings == {"other", "Join", "JOIN", "banned", "answered"}

\* the conversions start from a variant of an enum, or from a foreign string
ConvStarts ==
    { [enum |-> e, variant |-> v, display |-> "", parsed |-> "",
       written |-> "", read |-> ""] :
        e \in {"MembershipState"}, v \in DOMAIN MembershipStateRename }
    \cup { [enum |-> e, variant |-> v, display |-> "", parsed |-> "",
            written |-> "", read |-> ""] :
        e \in {"SessionDescriptionType"}, v \in DOMAIN SessionDescriptionTypeRename }
    \cup { [enum |-> e, variant |-> "", display |-> s, parsed |-> "",
            written |-> s, read |-> ""] :
        e \in StringEnums, s \in ForeignStrings }

\* the m.room.member documents
MemberDocuments == { d \in Documents : d.k = "obj" /\ d.type = Str("m.room.member") }

\* either an enum value is converted, or an m.room.member document decoded
InitEnum ==
    /\ \/ value = NoDocument /\ conv \in ConvStarts
       \/ value \in MemberDocuments /\ conv = NoConv
    /\ out = [u \in Unions |-> NoResult]
    /\ concrete = NoEvent
    /\ held = [u \in Unions |-> NoHeld]
    /\ wire = [u \in Unions |-> NoDocument]
    /\ entry = NoEntry
    /\ stripped = NoResult
    /\ again = [u \in Unions |-> NoResult]

\* variant.to_string()
EnumToString ==
    /\ conv # NoConv /\ conv.variant # "" /\ conv.display = ""
    /\ conv' = [conv EXCEPT !.display = Display(conv.enum, conv.variant)]
    /\ UNCHANGED <<value, out, concrete, held, wire, entry, stripped, again>>

\* string.parse::<Enum>()
EnumFromStr ==
    /\ conv # NoConv /\ conv.display # "" /\ conv.parsed = ""
    /\ conv' = [conv EXCEPT !.parsed = FromStr(conv.enum, conv.display)]
    /\ UNCHANGED <<value, out, concrete, held, wire, entry, stripped, again>>

\* the variant is serialized with serde
EnumSerialize ==
    /\ conv # NoConv /\ conv.variant # "" /\ conv.written = ""
    /\ conv' = [conv EXCEPT !.written = SerdeSerialize(conv.enum, conv.variant)]
    /\ UNCHANGED <<value, out, concrete, held, wire, entry, stripped, again>>

\* the string is deserialized with serde
EnumDeserialize ==
    /\ conv # NoConv /\ conv.written # "" /\ conv.read = ""
    /\ conv' = [conv EXCEPT !.read = SerdeDeserialize(conv.enum, conv.written)]
    /\ UNCHANGED <<value, out, concrete, held, wire, entry, stripped, again>>

NextEnum ==
    \/ EnumToString
    \/ EnumFromStr
    \/ EnumSerialize
    \/ EnumDeserialize
    \/ DeserializeAllEvent
    \/ DeserializeAllRoomEvent
    \/ DeserializeAllStateEvent
    \/ DeserializeOnlyEvent
    \/ DeserializeOnlyRoomEvent

SpecEnum == InitEnum /\ [][NextEnum]_vars

(***************************************************************************)
(* Vocabulary of the properties                                              *)
(***************************************************************************)
AllUnions == {"all::Event", "all::RoomEvent", "all::StateEvent"}

Done(u) == out[u] # NoResult

IsOk(u) == out[u].tag = "Ok"

IsErr(u) == out[u].tag = "Err"

CustomVariants == {"Custom", "CustomRoom", "CustomState"}

InvalidVariants == {"Invalid", "InvalidRoom", "InvalidState"}

\* the document carries a string `type` that is one of the 22 registered tags
HasRegisteredTag == IsSome(value, "type") /\ Get(value, "type").k = "str"
                    /\ Get(value, "type").s \in RegisteredTags

\* the document carries a string `type` outside the registry
HasCustomTag == IsSome(value, "type") /\ Get(value, "type").k = "str"
                /\ Get(value, "type").s \notin RegisteredTags

\* the registered kind of the document's tag
TagKind == KindOfTag(Get(value, "type").s)

\* the kinds a union has a dedicated variant for
Applicable(u) ==
    CASE u = "all::Event" -> RegisteredKinds
      [] u = "all::RoomEvent" -> RoomOnlyKinds \cup StateKinds
      [] u = "all::StateEvent" -> StateKinds
      [] u = "only::Event" -> BasicKinds
      [] u = "only::RoomEvent" -> RoomOnlyKinds

\* event_id, room_id, sender and state_key are all present strings
EnvelopeIntact ==
    \A f \in {"event_id", "room_id", "sender", "state_key"} : Get(value, f).k = "str"

(***************************************************************************)
(* C1: a document without a top-level `type` field is rejected by each of    *)
(* the five union decoders with the missing-field("type") error, whatever    *)
(* else it carries; it never yields a variant.                               *)
(***************************************************************************)
C1_MissingTypeRejected ==
    \A u \in Unions :
        (Done(u) /\ ~IsSome(value, "type")) => out[u] = Err(MissingField("type"))

\* an object without `type` that carries every other field was decoded by all
\* five unions
C1_Witness ==
    /\ value.k = "obj"
    /\ ~IsSome(value, "type")
    /\ EnvelopeIntact
    /\ IsSome(value, "content")
    /\ \A u \in Unions : Done(u) /\ IsErr(u)

(***************************************************************************)
(* C2: a document carrying one of the 22 registered tags never decodes to a  *)
(* Custom, CustomRoom or CustomState variant in any union: the outcome is    *)
(* the variant dedicated to the tag, an Invalid* variant, or an error.       *)
(***************************************************************************)
C2_RegisteredNeverCustom ==
    \A u \in Unions :
        (Done(u) /\ HasRegisteredTag) =>
            \/ IsErr(u)
            \/ IsOk(u) /\ out[u].variant = TagKind
            \/ IsOk(u) /\ out[u].variant \in InvalidVariants

\* an m.room.topic document was accepted by all::Event under its own variant
C2_Witness ==
    /\ HasRegisteredTag
    /\ TagKind = "RoomTopic"
    /\ IsOk("all::Event")
    /\ out["all::Event"].variant = "RoomTopic"

(***************************************************************************)
(* C3: an m.room.member document whose content lacks `membership` and whose  *)
(* envelope is intact decodes, in all::Event, all::RoomEvent and             *)
(* all::StateEvent, to Ok of InvalidState with a non-empty error string.     *)
(* Generally, when the per-kind decode of an applicable registered tag fails *)
(* and the Invalid decode of the same document succeeds, the result is Ok of *)
(* an Invalid* variant, not an error.                                        *)
(***************************************************************************)
C3_FallbackCorrectness ==
    /\ \A u \in AllUnions :
        (/\ Done(u)
         /\ Get(value, "type") = Str("m.room.member")
         /\ Get(value, "content") = Content("RoomMember", Absent)
         /\ EnvelopeIntact)
        => (IsOk(u) /\ out[u].variant = "InvalidState" /\ out[u].event.error # "")
    /\ \A u \in Unions :
        (/\ Done(u)
         /\ HasRegisteredTag
         /\ TagKind \in Applicable(u)
         /\ ~FromValueKind(TagKind, value).ok
         /\ FromValueInvalid(LevelOf(TagKind), value).ok)
        => (IsOk(u) /\ out[u].variant \in InvalidVariants)

\* the member document without `membership` went through the three decoders
C3_Witness ==
    /\ Get(value, "type") = Str("m.room.member")
    /\ Get(value, "content") = Content("RoomMember", Absent)
    /\ EnvelopeIntact
    /\ \A u \in AllUnions : IsOk(u) /\ out[u].variant = "InvalidState"

(***************************************************************************)
(* C4: a document with an unregistered tag that carries state_key and all of *)
(* event_id, room_id, sender is classified as CustomState, never as          *)
(* CustomRoom, by every union decoder that accepts it.                       *)
(***************************************************************************)
C4_TieBreakEveryUnion ==
    \A u \in Unions :
        (/\ Done(u)
         /\ HasCustomTag
         /\ IsSome(value, "state_key")
         /\ IsSome(value, "event_id") /\ IsSome(value, "room_id")
         /\ IsSome(value, "sender")
         /\ IsOk(u))
        => out[u].variant = "CustomState"

(***************************************************************************)
(* C5: for a document with an unregistered tag the Custom shape follows from *)
(* field presence alone: state_key present gives CustomState; otherwise      *)
(* event_id, room_id and sender all present gives CustomRoom; otherwise      *)
(* Custom.  Whatever all::Event, all::RoomEvent or all::StateEvent accepts   *)
(* of such a document is the variant this routing names.                     *)
(***************************************************************************)
C5_Route ==
    IF IsSome(value, "state_key") THEN "CustomState"
    ELSE IF IsSome(value, "event_id") /\ IsSome(value, "room_id") /\ IsSome(value, "sender")
         THEN "CustomRoom"
         ELSE "Custom"

C5_StructuralRouting ==
    \A u \in AllUnions :
        (Done(u) /\ HasCustomTag /\ IsOk(u)) => out[u].variant = C5_Route

\* all::Event returned each of the three Custom shapes' cases: here the one
\* where state_key and the three identifiers are all present
C5_Witness ==
    /\ HasCustomTag
    /\ IsSome(value, "state_key") /\ IsSome(value, "event_id")
    /\ IsSome(value, "room_id") /\ IsSome(value, "sender")
    /\ IsOk("all::Event") /\ out["all::Event"].variant = "CustomState"
    /\ IsOk("all::RoomEvent") /\ IsOk("all::StateEvent")

(***************************************************************************)
(* C6: every document all::StateEvent accepts is accepted by all::RoomEvent  *)
(* and all::Event, and every document all::RoomEvent accepts is accepted by  *)
(* all::Event, each time with the same variant holding the same value.       *)
(***************************************************************************)
C6_SubsetInvariant ==
    /\ (IsOk("all::StateEvent") /\ Done("all::RoomEvent"))
            => out["all::RoomEvent"] = out["all::StateEvent"]
    /\ (IsOk("all::StateEvent") /\ Done("all::Event"))
            => out["all::Event"] = out["all::StateEvent"]
    /\ (IsOk("all::RoomEvent") /\ Done("all::Event"))
            => out["all::Event"] = out["all::RoomEvent"]

\* a document with an unregistered tag accepted by the three decoders
C6_Witness ==
    /\ HasCustomTag
    /\ IsOk("all::StateEvent") /\ IsOk("all::RoomEvent") /\ IsOk("all::Event")
    /\ out["all::StateEvent"].variant = "CustomState"

(***************************************************************************)
(* C7: only::RoomEvent rejects every document whose tag is a state or a      *)
(* basic kind with its not-applicable error (never an InvalidRoom), and      *)
(* only::Event rejects every document whose tag is a room or a state kind,   *)
(* whatever else the document holds; an m.room.member document whose         *)
(* envelope is intact is nevertheless accepted by all::RoomEvent.            *)
(***************************************************************************)
C7_OnlyUnionExclusion ==
    /\ (Done("only::RoomEvent") /\ HasRegisteredTag /\ TagKind \in StateKinds \cup BasicKinds)
            => out["only::RoomEvent"] = Err("not exclusively a room event")
    /\ (Done("only::Event") /\ HasRegisteredTag /\ TagKind \in StateKinds \cup RoomOnlyKinds)
            => out["only::Event"] = Err("not exclusively a basic event")
    /\ (Done("all::RoomEvent") /\ Get(value, "type") = Str("m.room.member") /\ EnvelopeIntact)
            => IsOk("all::RoomEvent")

\* a well-formed member document refused by only::RoomEvent and accepted as
\* RoomMember by all::RoomEvent
C7_Witness ==
    /\ Get(value, "type") = Str("m.room.member")
    /\ IsErr("only::RoomEvent")
    /\ IsOk("all::RoomEvent") /\ out["all::RoomEvent"].variant = "RoomMember"

(***************************************************************************)
(* C8: every document only::RoomEvent accepts is one that all::RoomEvent     *)
(* classifies as a non-state variant (a call, message or redaction kind,     *)
(* InvalidRoom or CustomRoom); a document with an unregistered tag that      *)
(* carries state_key is not accepted as a room-only event.                   *)
(***************************************************************************)
C8_OnlyRoomHoldsNoStateEvent ==
    (IsOk("only::RoomEvent") /\ Done("all::RoomEvent")) =>
        /\ IsOk("all::RoomEvent")
        /\ out["all::RoomEvent"].variant \in RoomOnlyKinds \cup {"InvalidRoom", "CustomRoom"}

(***************************************************************************)
(* C9: a registered tag outside the union's level (the four basic kinds at   *)
(* all::RoomEvent; those and the six room-only kinds at all::StateEvent) is  *)
(* answered with the not-applicable error directly, well-formed document or  *)
(* not: no per-kind decode, no Invalid fallback, no Custom routing.          *)
(***************************************************************************)
C9_NotApplicableDirect ==
    /\ (Done("all::RoomEvent") /\ HasRegisteredTag /\ TagKind \in BasicKinds)
            => out["all::RoomEvent"] = Err("not a room event")
    /\ (Done("all::StateEvent") /\ HasRegisteredTag /\ TagKind \in BasicKinds \cup RoomOnlyKinds)
            => out["all::StateEvent"] = Err("not a state event")

\* a well-formed m.room.message document, which all::RoomEvent accepts under
\* its own variant, was refused by all::StateEvent
C9_Witness ==
    /\ HasRegisteredTag /\ TagKind = "RoomMessage"
    /\ IsOk("all::RoomEvent") /\ out["all::RoomEvent"].variant = "RoomMessage"
    /\ IsErr("all::StateEvent")

(***************************************************************************)
(* C10: round trip.  As claimed: for every per-kind value v and every union  *)
(* among all::Event, all::RoomEvent, all::StateEvent that accepts v's kind,  *)
(* decoding the document v serializes to yields Ok of the variant of v's     *)
(* kind holding a value equal to v.                                          *)
(***************************************************************************)
\* the kind of the value the producer holds
ConcreteKind == KindOfStruct(concrete.struct)

C10_RoundTripEveryValue ==
    \A u \in AllUnions :
        (/\ concrete # NoEvent
         /\ value # NoDocument
         /\ Done(u)
         /\ ConcreteKind \in Applicable(u))
        => out[u] = Ok(ConcreteKind, concrete)

\* C10 as amended: the same for every value whose event_type field holds the
\* tag of its own kind
C10_RoundTrip ==
    \A u \in AllUnions :
        (/\ concrete # NoEvent
         /\ value # NoDocument
         /\ Done(u)
         /\ ConcreteKind \in Applicable(u)
         /\ concrete.event_type = EventTypeOf(TagOf[ConcreteKind]))
        => out[u] = Ok(ConcreteKind, concrete)

\* a MemberEvent of the right type, lifted into all::StateEvent, serialized
\* and decoded again by the three unions
C10_Witness ==
    /\ concrete # NoEvent
    /\ concrete.struct = "MemberEvent"
    /\ concrete.event_type = EventTypeOf("m.room.member")
    /\ held["all::StateEvent"] # NoHeld
    /\ value # NoDocument
    /\ \A u \in AllUnions : IsOk(u) /\ out[u].event = concrete

(***************************************************************************)
(* C11: serializing a union value is pure delegation.  For each of the five  *)
(* unions and whatever variant its decoder returned (per-kind, Invalid or    *)
(* Custom), the document the union's serialize writes is the document that  *)
(* serializing the held value alone writes: no variant name and no wrapper   *)
(* is added; and serialize handles every variant a decoder can return.       *)
(***************************************************************************)
C11_PureDelegation ==
    \A u \in Unions :
        /\ wire[u] # NoDocument => wire[u] = SerializeStruct(out[u].event)
        /\ (Done(u) /\ IsOk(u) /\ wire[u] = NoDocument) => ENABLED Reserialize(u)

\* all::Event returned an InvalidState value and it has been serialized
C11_Witness ==
    /\ Done("all::Event") /\ IsOk("all::Event")
    /\ out["all::Event"].variant = "InvalidState"
    /\ wire["all::Event"] # NoDocument
    /\ wire["all::Event"].state_key = value.state_key

(***************************************************************************)
(* C12: lifting.  For a per-kind value and each of the five unions, a From   *)
(* conversion into the union exists exactly when the union has a variant     *)
(* holding the value's type; the conversion places the value unchanged in    *)
(* the variant of its kind, which is the variant the union's decoder returns *)
(* for the kind's tag.  A MemberEvent lifts into all::Event, all::RoomEvent  *)
(* and all::StateEvent and into neither only::Event nor only::RoomEvent.     *)
(***************************************************************************)
C12_Lifting ==
    \A u \in Unions :
        /\ concrete # NoEvent =>
              /\ HasFrom(u, concrete) <=> (\E p \in Variants(u) : p[2] = concrete.struct)
              /\ HasFrom(u, concrete) <=> ConcreteKind \in Applicable(u)
              /\ concrete.struct = "MemberEvent" => (HasFrom(u, concrete) <=> u \in AllUnions)
        /\ held[u] # NoHeld =>
              /\ held[u].event = concrete
              /\ held[u].variant = ConcreteKind
              /\ <<held[u].variant, concrete.struct>> \in Variants(u)
        /\ (held[u] # NoHeld /\ Done(u)
                /\ concrete.event_type = EventTypeOf(TagOf[ConcreteKind])) =>
              (IsOk(u) /\ out[u].variant = held[u].variant)

\* a MemberEvent has been lifted into the three all-unions, sits in their
\* RoomMember variant, and all::StateEvent decoded its document to RoomMember
C12_Witness ==
    /\ concrete # NoEvent
    /\ concrete.struct = "MemberEvent"
    /\ \A u \in AllUnions : held[u] = [variant |-> "RoomMember", event |-> concrete]
    /\ \A u \in Unions \ AllUnions : held[u] = NoHeld /\ ~HasFrom(u, concrete)
    /\ Done("all::StateEvent") /\ out["all::StateEvent"].variant = "RoomMember"

(***************************************************************************)
(* C13: totality.  For every document (an object or not, with or without     *)
(* any field) each of the five decoders returns exactly one of Ok(variant)   *)
(* and Err(error): an Ok holds a variant of the union with a value of the    *)
(* variant's type and no error, an Err holds an error message and no value;  *)
(* the document is never dropped without one of the two.                     *)
(***************************************************************************)
C13_Totality ==
    \A u \in Unions :
        LET r == DeserializeUnion(u, value) IN
        /\ r.tag \in {"Ok", "Err"}
        /\ r.tag = "Ok" => (<<r.variant, r.event.struct>> \in Variants(u) /\ r.msg = "")
        /\ r.tag = "Err" => (r.variant = "" /\ r.event = NoEvent /\ r.msg # "")
        /\ Done(u) => out[u] = r

\* a document that is not an object was decoded by all five unions and every
\* one returned Err
C13_Witness ==
    /\ value = NonObject
    /\ \A u \in Unions : Done(u) /\ IsErr(u)

(***************************************************************************)
(* C14: type-tag resolution.  As claimed: whenever the document has a        *)
(* top-level `type` field, every union decoder obtains an event-kind tag     *)
(* from it and never returns an error of the tag-resolution step; a missing  *)
(* `type` is the only failure of that step.                                  *)
(***************************************************************************)
\* the errors the tag-resolution step returns: the missing field and the
\* failure of from_value::<EventType>
TagResolutionErrors == {MissingField("type"), FromValueEventType(Num).msg}

C14_TypePresentResolves ==
    \A u \in Unions :
        (Done(u) /\ IsSome(value, "type")) =>
            /\ FromValueEventType(Get(value, "type")).ok
            /\ out[u].msg \notin TagResolutionErrors

(***************************************************************************)
(* C14, amended: whenever the document has a top-level `type` field holding  *)
(* a string, every union decoder obtains the tag of that string (a           *)
(* registered tag, or Custom carrying the string verbatim) and returns no    *)
(* error of the tag-resolution step; that step fails exactly when `type` is  *)
(* missing (missing-field error) or is not a string (the EventType parse     *)
(* error).                                                                   *)
(***************************************************************************)
C14_StringTypeResolves ==
    \A u \in Unions :
        Done(u) =>
            /\ Get(value, "type").k = "str" =>
                  /\ out[u].msg \notin TagResolutionErrors
                  /\ IsOk(u) => out[u].event.event_type = EventTypeOf(Get(value, "type").s)
                  /\ IsOk(u) => EventTypeWire(out[u].event.event_type) = Get(value, "type").s
            /\ ~IsSome(value, "type") => out[u] = Err(MissingField("type"))
            /\ (IsSome(value, "type") /\ Get(value, "type").k # "str") =>
                  out[u] = Err(FromValueEventType(Get(value, "type")).msg)

\* a document whose `type` is not a string was decoded by all five unions,
\* each returned the EventType parse error
C14_Witness ==
    /\ IsSome(value, "type")
    /\ Get(value, "type").k # "str"
    /\ \A u \in Unions : Done(u) /\ out[u] = Err(FromValueEventType(Num).msg)

(***************************************************************************)
(* C15: variant-set inclusion.  Every variant of all::StateEvent is a        *)
(* variant (same name, same held type) of all::RoomEvent, every variant of   *)
(* all::RoomEvent one of all::Event, every variant of only::Event one of     *)
(* all::Event and every variant of only::RoomEvent one of all::RoomEvent;    *)
(* and no decoder returns a variant outside its own enum: all::StateEvent    *)
(* returns no room-only or basic variant, all::RoomEvent no basic variant    *)
(* (Invalid and Custom of the basic level included).                         *)
(***************************************************************************)
C15_VariantSetInclusion ==
    /\ AllStateEventVariants \subseteq AllRoomEventVariants
    /\ AllRoomEventVariants \subseteq AllEventVariants
    /\ OnlyEventVariants \subseteq AllEventVariants
    /\ OnlyRoomEventVariants \subseteq AllRoomEventVariants
    /\ \A u \in Unions :
          (Done(u) /\ IsOk(u)) => <<out[u].variant, out[u].event.struct>> \in Variants(u)
    /\ (Done("all::StateEvent") /\ IsOk("all::StateEvent")) =>
          out["all::StateEvent"].variant \in StateKinds \cup {"InvalidState", "CustomState"}
    /\ (Done("all::RoomEvent") /\ IsOk("all::RoomEvent")) =>
          out["all::RoomEvent"].variant \notin BasicKinds \cup {"Invalid", "Custom"}

\* a document with an unregistered tag and a room envelope without state_key
\* was decoded by all::RoomEvent and all::Event, both returned CustomRoom
C15_Witness ==
    /\ HasCustomTag
    /\ ~IsSome(value, "state_key")
    /\ Done("all::RoomEvent") /\ out["all::RoomEvent"].variant = "CustomRoom"
    /\ Done("all::Event") /\ out["all::Event"].variant = "CustomRoom"
    /\ Done("all::StateEvent") /\ IsErr("all::StateEvent")

(***************************************************************************)
(* C16: double failure.  When the per-kind decode of an applicable           *)
(* registered tag fails and the Invalid decode of the same document, at the  *)
(* level of the kind, fails too, the decoder returns an error carrying the   *)
(* message of the second (Invalid) failure, not that of the first; no        *)
(* further fallback is tried.                                                *)
(***************************************************************************)
C16_DoubleFailure ==
    \A u \in Unions :
        (/\ Done(u)
         /\ HasRegisteredTag
         /\ TagKind \in Applicable(u)
         /\ ~FromValueKind(TagKind, value).ok
         /\ ~FromValueInvalid(LevelOf(TagKind), value).ok)
        => out[u] = Err(FromValueInvalid(LevelOf(TagKind), value).msg)

\* an m.room.message document whose content does not decode and whose
\* event_id is missing: the two failures have different messages, and
\* all::Event, all::RoomEvent and only::RoomEvent returned the second
C16_Witness ==
    /\ HasRegisteredTag
    /\ TagKind = "RoomMessage"
    /\ ~FromValueKind(TagKind, value).ok
    /\ ~FromValueInvalid("room", value).ok
    /\ FromValueKind(TagKind, value).msg # FromValueInvalid("room", value).msg
    /\ \A u \in {"all::Event", "all::RoomEvent", "only::RoomEvent"} :
          Done(u) /\ out[u] = Err(MissingField("event_id"))

(***************************************************************************)
(* C17: Custom types accept any document.  As claimed: every document whose  *)
(* `type` is a string outside the registry is accepted by all::Event as one  *)
(* of Custom, CustomRoom, CustomState; the structurally chosen Custom decode *)
(* never fails.                                                              *)
(***************************************************************************)
C17_CustomAcceptsAny ==
    (Done("all::Event") /\ HasCustomTag) =>
        (IsOk("all::Event") /\ out["all::Event"].variant \in CustomVariants)

\* the level of the Custom struct the structural routing of all::Event picks
C17_RouteLevel ==
    IF C5_Route = "CustomState" THEN "state"
    ELSE IF C5_Route = "CustomRoom" THEN "room" ELSE "basic"

(***************************************************************************)
(* C17, amended: for every document whose `type` is a string outside the     *)
(* registry, all::Event makes exactly one decode, into the Custom struct the *)
(* structural routing picks.  When that decode succeeds the result is Ok of  *)
(* that Custom variant; when it fails (a missing `content`, a missing or     *)
(* non-string identifier or state_key of the picked shape) its failure is    *)
(* returned as the error: never an Invalid variant, never another Custom     *)
(* shape.                                                                    *)
(***************************************************************************)
C17_CustomDecodeOrError ==
    (Done("all::Event") /\ HasCustomTag) =>
        /\ out["all::Event"] =
              IF FromValueCustom(C17_RouteLevel, value).ok
              THEN Ok(C5_Route, FromValueCustom(C17_RouteLevel, value).val)
              ELSE Err(FromValueCustom(C17_RouteLevel, value).msg)
        /\ out["all::Event"].variant \notin InvalidVariants

\* a document with an unregistered tag, a state_key and content but no
\* event_id was decoded by all::Event: the CustomState decode failed and its
\* error was returned
C17_Witness ==
    /\ HasCustomTag
    /\ Get(value, "state_key").k = "str"
    /\ IsSome(value, "content")
    /\ ~IsSome(value, "event_id")
    /\ Done("all::Event")
    /\ out["all::Event"] = Err(MissingField("event_id"))

C18_VariantLevel(variant) ==
    IF variant \in {"Invalid", "Custom"} THEN "basic"
    ELSE IF variant \in {"InvalidRoom", "CustomRoom"} THEN "room" ELSE "state"

\* the document reduced to the fields a struct of the level declares
C18_Project(level, v) ==
    [v EXCEPT !.event_id = IF level = "basic" THEN Absent ELSE @,
              !.room_id = IF level = "basic" THEN Absent ELSE @,
              !.sender = IF level = "basic" THEN Absent ELSE @,
              !.state_key = IF level = "state" THEN @ ELSE Absent]

C20_StrippedStateShape ==
    /\ { p[1] : p \in StrippedStateVariants } =
          {"RoomAvatar", "RoomCanonicalAlias", "RoomJoinRules", "RoomName"}
    /\ Cardinality(StrippedStateVariants) = 4
    /\ StrippedStateContentFields \cap {"event_id", "room_id", "sender"} = {}
    /\ stripped.tag = "Ok" =>
          /\ stripped.variant \in {"RoomAvatar", "RoomCanonicalAlias", "RoomJoinRules", "RoomName"}
          /\ stripped.variant = entry.variant
          /\ DOMAIN stripped.event = StrippedStateContentFields
    /\ (stripped # NoResult /\ entry.k = "obj"
            /\ entry.variant \notin {"RoomAvatar", "RoomCanonicalAlias", "RoomJoinRules", "RoomName"})
          => stripped.tag = "Err"
    /\ value # NoDocument =>
          /\ value.event_id = Absent
          /\ value.content = entry.content /\ value.type = entry.type
          /\ value.state_key = entry.state_key

\* an entry under RoomName that also carries an event_id was decoded and
\* serialized: the value has the three fields, the event_id is gone
C20_Witness ==
    /\ entry.k = "obj" /\ entry.variant = "RoomName"
    /\ entry.event_id # Absent
    /\ stripped.tag = "Ok" /\ stripped.variant = "RoomName"
    /\ value # NoDocument /\ value.event_id = Absent

(***************************************************************************)
(* C21: the error string held by an Invalid, InvalidRoom or InvalidState     *)
(* variant a union decoder returns is exactly the message of the failed      *)
(* per-kind decode of the document (the first failure): the document has a   *)
(* registered tag, its per-kind decode fails, and the stored string is that  *)
(* failure's message, not the message of any other decode attempt.           *)
(***************************************************************************)
C21_ErrorIsFirstFailure ==
    \A u \in Unions :
        (Done(u) /\ IsOk(u)) =>
            IF out[u].variant \in InvalidVariants
            THEN /\ HasRegisteredTag
                 /\ ~FromValueKind(TagKind, value).ok
                 /\ out[u].event.error = FromValueKind(TagKind, value).msg
                 /\ out[u].event.error # ""
            ELSE out[u].event.error = ""

\* an m.room.member document with an intact envelope whose membership is no
\* MembershipState: the three all-unions hold InvalidState with the message
\* of the MemberEvent decode
C21_Witness ==
    /\ HasRegisteredTag /\ TagKind = "RoomMember"
    /\ Get(value, "content") = Content("RoomMember", Str("other"))
    /\ \A u \in AllUnions :
          /\ Done(u) /\ out[u].variant = "InvalidState"
          /\ out[u].event.error = "unknown variant of MembershipState"

(***************************************************************************)
(* C22: each registered tag commits to one level and the Invalid fallback of *)
(* a failed per-kind decode is fixed by that level, the same in every union  *)
(* that has the tag: the 4 basic tags fall back to Invalid, the 6 room-only  *)
(* tags to InvalidRoom, the 12 state tags to InvalidState; no decoder falls  *)
(* back to an Invalid type of another level.                                 *)
(***************************************************************************)
\* the Invalid variant of a level
C22_InvalidVariantOf(level) ==
    IF level = "basic" THEN "Invalid"
    ELSE IF level = "room" THEN "InvalidRoom" ELSE "InvalidState"

C22_FallbackLevelFixed ==
    /\ Cardinality(BasicKinds) = 4 /\ Cardinality(RoomOnlyKinds) = 6
    /\ Cardinality(StateKinds) = 12
    /\ BasicKinds \cap RoomOnlyKinds = {} /\ BasicKinds \cap StateKinds = {}
    /\ RoomOnlyKinds \cap StateKinds = {}
    /\ \A u \in Unions :
          (Done(u) /\ IsOk(u) /\ out[u].variant \in InvalidVariants) =>
              /\ HasRegisteredTag
              /\ out[u].variant = C22_InvalidVariantOf(LevelOf(TagKind))
              /\ out[u].event.struct = InvalidName(LevelOf(TagKind))
    /\ \A u \in Unions :
          (Done(u) /\ HasRegisteredTag /\ TagKind \in Applicable(u)
                /\ ~FromValueKind(TagKind, value).ok /\ IsOk(u)) =>
              out[u].variant = C22_InvalidVariantOf(LevelOf(TagKind))

\* an m.room.message document whose content does not decode, with an intact
\* envelope and a state_key: all::Event, all::RoomEvent and only::RoomEvent
\* all fell back to InvalidRoom
C22_Witness ==
    /\ HasRegisteredTag /\ TagKind = "RoomMessage"
    /\ EnvelopeIntact
    /\ ~FromValueKind(TagKind, value).ok
    /\ \A u \in {"all::Event", "all::RoomEvent", "only::RoomEvent"} :
          Done(u) /\ out[u].variant = "InvalidRoom"

(***************************************************************************)
(* C23: only::Event accepts only events that are exclusively basic: every    *)
(* document it accepts is one all::Event classifies as a basic variant       *)
(* (Presence, Receipt, Tag, Typing, Invalid, Custom), with the same variant  *)
(* and value; a document with an unregistered tag that all::Event classifies *)
(* as CustomRoom or CustomState is not accepted by only::Event as Custom.    *)
(***************************************************************************)
C23_OnlyEventRefinesAllEvent ==
    (Done("only::Event") /\ IsOk("only::Event") /\ Done("all::Event")) =>
        /\ out["all::Event"] = out["only::Event"]
        /\ out["all::Event"].variant \in BasicKinds \cup {"Invalid", "Custom"}

(***************************************************************************)
(* C24: the three narrow decoders partition the registry.  Each of the 22    *)
(* registered tags is applicable (not refused as a kind the union does not   *)
(* have) in exactly one of only::Event, only::RoomEvent and all::StateEvent; *)
(* the tags applicable in all::RoomEvent are those of only::RoomEvent        *)
(* together with those of all::StateEvent; all::Event refuses no registered  *)
(* tag.                                                                      *)
(***************************************************************************)
\* the errors with which a union refuses a kind it has no variant for:
\* all::Event has no such arm
C24_NotApplicableErrors(u) ==
    CASE u = "all::Event" -> {}
      [] u = "all::RoomEvent" -> {Err("not a room event")}
      [] u = "all::StateEvent" -> {Err("not a state event")}
      [] u = "only::Event" -> {Err("not exclusively a basic event")}
      [] u = "only::RoomEvent" -> {Err("not exclusively a room event")}

\* union u did not refuse the document's kind
C24_Accepts(u) == out[u] \notin C24_NotApplicableErrors(u)

C24_Partition ==
    (HasRegisteredTag /\ \A u \in Unions : Done(u)) =>
        /\ Cardinality({ u \in {"only::Event", "only::RoomEvent", "all::StateEvent"} :
                            C24_Accepts(u) }) = 1
        /\ C24_Accepts("all::RoomEvent") <=>
              (C24_Accepts("only::RoomEvent") \/ C24_Accepts("all::StateEvent"))
        /\ C24_Accepts("all::Event")
        /\ \A u \in Unions : C24_Accepts(u) <=> TagKind \in Applicable(u)

\* an m.room.message document decoded by all five: only::RoomEvent,
\* all::RoomEvent and all::Event took it, only::Event and all::StateEvent
\* refused the kind
C24_Witness ==
    /\ HasRegisteredTag /\ TagKind = "RoomMessage"
    /\ \A u \in Unions : Done(u)
    /\ \A u \in {"all::Event", "all::RoomEvent", "only::RoomEvent"} :
          IsOk(u) /\ out[u].variant = "RoomMessage"
    /\ out["only::Event"] = Err("not exclusively a basic event")
    /\ out["all::StateEvent"] = Err("not a state event")

C25_LostTheFailingField(u) ==
    /\ out[u].variant = "Invalid"
    /\ HasRegisteredTag /\ TagKind = "Typing"
    /\ Get(value, "room_id").k \notin {"absent", "str"}
    /\ ContentError("Typing", Get(value, "content")) = ""

C26_StrippedTypeMatchesVariant ==
    stripped.tag = "Ok" =>
        stripped.event.event_type = EventTypeOf(TagOf[stripped.variant])

(***************************************************************************)
(* C27: MembershipState is a closed set of five values with the wire strings *)
(* ban, invite, join, knock, leave; for every variant the string of the      *)
(* serde rename and the string of impl_enum agree; a variant converted to    *)
(* its string and back is the same variant; an m.room.member document whose  *)
(* membership is any other string fails the per-kind decode and goes to the  *)
(* InvalidState fallback in the union decoders.  The same agreement holds    *)
(* for SessionDescriptionType (answer, offer).                               *)
(***************************************************************************)
C27_EnumStrings ==
    /\ { MembershipStateRename[v] : v \in DOMAIN MembershipStateRename } =
          {"ban", "invite", "join", "knock", "leave"}
    /\ Cardinality(DOMAIN MembershipStateRename) = 5
    /\ MembershipStates = { MembershipStateRename[v] : v \in DOMAIN MembershipStateRename }
    /\ { SessionDescriptionTypeRename[v] : v \in DOMAIN SessionDescriptionTypeRename } =
          {"answer", "offer"}
    /\ \A e \in StringEnums :
          /\ DOMAIN Rename(e) = DOMAIN ImplEnum(e)
          /\ \A v \in DOMAIN Rename(e) : Rename(e)[v] = ImplEnum(e)[v]
    /\ conv # NoConv =>
          /\ (conv.variant # "" /\ conv.display # "" /\ conv.written # "") =>
                conv.display = conv.written
          /\ (conv.variant # "" /\ conv.parsed # "") => conv.parsed = conv.variant
          /\ (conv.variant # "" /\ conv.read # "") => conv.read = conv.variant
          /\ (conv.variant = "" /\ conv.parsed # "") => conv.parsed = "ParseError"
          /\ (conv.variant = "" /\ conv.read # "") => conv.read = "unknown variant"
    /\ \A u \in AllUnions :
          (/\ value # NoDocument /\ Done(u)
           /\ Get(value, "content").k = "obj"
           /\ Get(value, "content").for = "RoomMember"
           /\ Get(value, "content").req.k = "str"
           /\ Get(value, "content").req.s \notin MembershipStates) =>
              /\ ~FromValueKind("RoomMember", value).ok
              /\ out[u] = InvalidStateEvent(value, FromValueKind("RoomMember", value).msg)
              /\ EnvelopeIntact => out[u].variant = "InvalidState"

\* Knock was written by both conversions as "knock" and read back by both as
\* Knock
C27_Witness ==
    /\ conv # NoConv
    /\ conv.enum = "MembershipState" /\ conv.variant = "Knock"
    /\ conv.display = "knock" /\ conv.written = "knock"
    /\ conv.parsed = "Knock" /\ conv.read = "Knock"

====
